---- MODULE Spec2Model ----
(***************************************************************************)
(* Player-risk service: the tool-calling session of GrokClient, the        *)
(* agent-level retry of AgentPipeline, AgentPipeline.run / run_and_save    *)
(* and the fixture loop of ProjectionAlertPipeline.                        *)
(*                                                                         *)
(* Two specifications share the module:                                  *)
(*   SpecSession  one call of GrokClient.chat_with_streaming under its     *)
(*                tenacity @retry decorator, against a nondeterministic    *)
(*                model host;                                              *)
(*   Spec         ProjectionAlertPipeline.run_async: the fixture loop,     *)
(*                AgentPipeline.run_and_save, AgentPipeline.run and        *)
(*                _run_agent_with_retry around the three agents.           *)
(* Each specification leaves the other's variables unchanged.              *)
(***************************************************************************)
EXTENDS Integers, Sequences, FiniteSets, TLC

(***************************************************************************)
(* Bounds of the model.                                                    *)
(***************************************************************************)
\* longest list of tool calls the host returns in one turn
MaxToolCalls == 2
\* turns the model lets one attempt of a session submit (the code's loop has
\* no bound of its own)
TurnBound == 2
\* longest fixture list run_async is given
MaxFixtures == 2

(***************************************************************************)
(* Exceptions.  BdbQuit derives from Exception; KeyboardInterrupt derives  *)
(* from BaseException only.                                                *)
(***************************************************************************)
ExceptionClasses ==
    {"RateLimitExceeded", "TransportError", "DeadlineExceeded",
     "UnboundLocalError",
     "JSONDecodeError", "ValidationError", "AttributeError", "ValueError",
     "TypeError", "AgentResponseError", "BdbQuit"}

\* the two signals an operator uses to abort: Ctrl+C and the debugger's quit
DeliberateInterrupts == {"KeyboardInterrupt", "BdbQuit"}

\* isinstance(e, Exception)
IsException(e) == e \in ExceptionClasses

(***************************************************************************)
(* tenacity @retry(retry=retry_if_exception_type(Exception),               *)
(*                 stop=stop_after_attempt(3), reraise=True)               *)
(***************************************************************************)
stop_after_attempt == 3

retry_if_exception_type(e) == IsException(e)

\* TRUE when tenacity calls the function again after it raised e on attempt n
tenacity_retries_short(e, n) ==
    retry_if_exception_type(e) /\ n < stop_after_attempt - 1

tenacity_retries(e, n) == retry_if_exception_type(e) /\ n < stop_after_attempt

(***************************************************************************)
(* Tools and the registry.                                                 *)
(***************************************************************************)
\* GrokClient.chat_with_streaming's max_iterations default
max_iterations_default == 10

RosterTool == "get_active_roster"

\* the argument strings a host may send with a client-side call
ArgumentTexts == {"{team:Arsenal}", "{team:Brentford}", "not json"}

\* values the max_iterations argument can be configured to.  The argument is
\* accepted (line 358) and never read, so the session's behaviour does not
\* depend on it and it is no variable of the model.
ConfiguredCaps == {1, 2, max_iterations_default}

ParseError == [error |-> "JSONDecodeError"]

\* json.loads on the argument strings of the model
json_loads(text) ==
    CASE text = "{team:Arsenal}"   -> [team |-> "Arsenal"]
      [] text = "{team:Brentford}" -> [team |-> "Brentford"]
      [] OTHER                     -> ParseError

\* client-side calls of the model: the roster tool with each argument string,
\* and a name no registry binds
ClientCalls ==
    [name : {RosterTool}, type : {"client_side_tool"}, arguments : ArgumentTexts]
    \cup [name : {"unknown_tool"}, type : {"client_side_tool"},
          arguments : {"{team:Arsenal}"}]

ServerCalls ==
    [name : {"web_search"}, type : {"server_side_tool"}, arguments : {"{q}"}]

ToolCalls == ClientCalls \cup ServerCalls

\* get_tool_call_type(tool_call)
get_tool_call_type(tool_call) == tool_call.type

SeqsUpTo(S, n) == UNION {[1..k -> S] : k \in 0..n}

\* what one chat.stream() can yield: the tool calls of the turn's response
Responses == SeqsUpTo(ToolCalls, MaxToolCalls)

\* the tool_registry argument: None, an empty ToolRegistry, or one holding
\* the roster tool (ToolRegistry._tools keys, in insertion order)
Registries ==
    {[none |-> TRUE, tools |-> <<>>],
     [none |-> FALSE, tools |-> <<>>],
     [none |-> FALSE, tools |-> <<RosterTool>>]}

\* ToolRegistry.__len__ : an empty registry is falsy, as None is
registry_len(reg) == Len(reg.tools)

\* bool(tool_registry)
registry_truthy(reg) == ~reg.none /\ registry_len(reg) # 0

\* ToolRegistry.get_tool_names
get_tool_names(reg) == reg.tools

Range(s) == {s[i] : i \in 1..Len(s)}

\* ToolRegistry.execute(name, arguments) -> str
registry_execute(reg, name, arguments) ==
    IF name \notin Range(reg.tools)
    THEN [error |-> "Unknown tool", tool |-> name]
    ELSE [roster_of |-> arguments.team, tool |-> name]

\* xai_sdk.chat.tool_result(result)
tool_result(result) == [role |-> "tool", content |-> result]

\* the local custom_tools_names: bound only inside `if tool_registry:`
NamesUnbound == [bound |-> FALSE, names |-> <<>>]

custom_tools_names_of(reg) ==
    IF registry_truthy(reg)
    THEN [bound |-> TRUE, names |-> get_tool_names(reg)]
    ELSE NamesUnbound

\* the messages argument, appended to the fresh chat by role
InitialChat == <<[role |-> "system"], [role |-> "user"]>>

VARIABLES
    \* ---- GrokClient.chat_with_streaming ----
    s_pc,                \* "call" | "loop" | "returned" | "raised"
    tool_registry,       \* the registry argument
    custom_tools_names,  \* local of chat_with_streaming
    research_turns,      \* local: turns submitted in this attempt
    chat,                \* the conversation of this attempt
    executed,            \* the ToolRegistry.execute calls of this attempt, in order
    attempt_number,      \* tenacity's attempt number, from 1
    raised,              \* the exception the call ended with, or "none"
    last_step            \* what the latest step of the session did

session_vars ==
    <<s_pc, tool_registry, custom_tools_names, research_turns,
      chat, executed, attempt_number, raised, last_step>>

VARIABLES
    \* ---- ProjectionAlertPipeline.run_async ----
    p_pc,               \* "start" | "fixture" | "agent" | "summary" | "exited" | "aborted"
    fixtures,           \* the fixture list of the run
    idx,                \* index of the fixture being processed (enumerate, from 1)
    all_alerts,         \* alerts collected by run_async
    exc,                \* the exception that left run_async, or NoExc
    store,              \* the alert table: one entry per committed save_alerts batch
    \* ---- AgentPipeline.run / _run_agent_with_retry ----
    stage,              \* "research" | "analyst" | "shark": the agent being run
    ctx_i,              \* index of the team context being processed (1 or 2)
    attempt,            \* the for-loop variable of _run_agent_with_retry
    t_attempt,          \* tenacity's attempt number inside the running agent call
    attempt_log,        \* outcome of each finished agent_fn call of this retry loop
    research_response,  \* the description handed on to the analyst
    team_analyses,      \* local list of AgentPipeline.run
    \* ---- what has happened so far ----
    retry_end,          \* how the latest _run_agent_with_retry call ended
    analyst_inputs,     \* every injury_news value analyze_injury_news was called with
    shark_log,          \* every call of analyze_player_risk_for_fixture: [idx, input]
    interrupt_seen,     \* the latest deliberate interrupt raised during a host exchange
    research_content    \* the final text of the research session the latest step ended, else None

pipeline_vars ==
    <<p_pc, fixtures, idx, all_alerts, exc, store, stage, ctx_i, attempt,
      t_attempt, attempt_log, research_response, team_analyses, retry_end,
      analyst_inputs, shark_log, interrupt_seen, research_content>>

VARIABLES
    \* ---- PlayerMatcher: one call of is_match or find_best_match ----
    m_pc,               \* "call" | "returned"
    m_call,             \* the call: its operation and arguments
    m_result,           \* the value the call returned
    \* ---- ProjectionsService.enrich_with_alerts ----
    e_pc,               \* "ready" while the caller may run the enrichment again
    e_projections,      \* the caller's projections DataFrame: its rows, in order
    e_alerts,           \* the caller's alert list
    e_runs              \* what each call of enrich_with_alerts returned, in order

match_vars == <<m_pc, m_call, m_result>>

enrich_vars == <<e_pc, e_projections, e_alerts, e_runs>>

VARIABLES
    \* ---- the clock ----
    now,                \* datetime.now(), in seconds
    \* ---- src/utils/run_id.py ----
    module_run_id,      \* the module global _run_id: <<>> for None, else <<stamp>>
    run_id_calls,       \* when every call of get_run_id was made and what it returned
    \* ---- GrokClient rate limiting ----
    request_timestamps, \* GrokClient._request_timestamps
    recorded,           \* every timestamp _check_rate_limit ever appended
    last_check,         \* what the latest _check_rate_limit call did
    \* ---- AlertService.save_alerts under session_scope ----
    sv_pc,              \* "call" | "adding" | "returned" | "raised"
    sv_alerts,          \* the alerts argument
    sv_pending,         \* rows added to the open session, not yet committed
    sv_result,          \* the count returned, or the exception raised
    alert_table,        \* the committed rows of the alerts table
    \* ---- the module global tool_registry and the sessions using it ----
    shared_registry,    \* tools.registry.tool_registry
    callers             \* per caller of research_team: where it is, what it saw

process_vars ==
    <<now, module_run_id, run_id_calls, request_timestamps, recorded,
      last_check, sv_pc, sv_alerts, sv_pending, sv_result, alert_table,
      shared_registry, callers>>

vars == <<session_vars, pipeline_vars, match_vars, enrich_vars, process_vars>>

\* the matcher's variables while another part is modelled
MatchIdle ==
    /\ m_pc = "idle"
    /\ m_call = [op |-> "none"]
    /\ m_result = [op |-> "none"]

\* the process-wide state while another part is modelled
ProcessIdle ==
    /\ now = 0
    /\ module_run_id = <<>>
    /\ run_id_calls = <<>>
    /\ request_timestamps = <<>>
    /\ recorded = <<>>
    /\ last_check = [outcome |-> "none"]
    /\ sv_pc = "idle"
    /\ sv_alerts = <<>>
    /\ sv_pending = <<>>
    /\ sv_result = [kind |-> "none"]
    /\ alert_table = <<>>
    /\ shared_registry = [none |-> FALSE, tools |-> <<>>]
    /\ callers = <<>>

\* the enrichment's variables while another part is modelled
EnrichIdle ==
    /\ e_pc = "idle"
    /\ e_projections = <<>>
    /\ e_alerts = <<>>
    /\ e_runs = <<>>

(***************************************************************************)
(* Data of the agent pipeline.                                             *)
(***************************************************************************)
\* _run_agent_with_retry's max_retries default; run() never overrides it
max_retries_default == 3

None == "None"

\* Python truthiness of the strings and None the validators test
falsy(x) == x \in {None, ""}

\* get_run_id(): fixed by its first call, at ProjectionAlertPipeline.__init__
run_id == "2026_01_01_120000"

\* fixture strings "A vs B", held as the list fixture.split(" vs ") yields
FixtureNames == {<<"Arsenal", "Brentford">>, <<"Liverpool", "Brighton">>}

\* the fixture lists run_async can be given: the warehouse query is DISTINCT
\* over (fixture, match_time, league), so one fixture string can occur twice
FixtureLists == UNION {[1..n -> FixtureNames] : n \in 0..MaxFixtures}

\* AgentPipeline._generate_team_contexts
mirrorless_team_contexts(fixture) ==
    <<[team |-> fixture[1], opponent |-> fixture[2], fixture |-> fixture],
      [team |-> fixture[1], opponent |-> fixture[2], fixture |-> fixture]>>

generate_team_contexts(fixture) ==
    <<[team |-> fixture[1], opponent |-> fixture[2], fixture |-> fixture],
      [team |-> fixture[2], opponent |-> fixture[1], fixture |-> fixture]>>

\* agent_name passed to _run_agent_with_retry: f"Research Agent ({context.team})"
agent_name_of(stg, context) ==
    [agent |-> stg, team |-> context.team]

\* ---- ResearchAgent.research_team ----
\* final texts the host can return to the research agent
ResearchContents ==
    {"{description:narrative}", "{description:}", "{confirmed_out:[]}",
     "[1,2]", "not json"}

\* a findings dict: whether the JSON value is a dict, and its description key
Findings(is_dict, has_description, description) ==
    [is_dict |-> is_dict, has_description |-> has_description,
     description |-> description]

EmptyFindings == Findings(TRUE, FALSE, "")

\* json.loads(response.get('content', '{}')), lines 127-137: a text that is
\* not JSON gives {} (the JSONDecodeError is caught)
research_json_loads(content) ==
    CASE content = "{description:narrative}" -> Findings(TRUE, TRUE, "narrative")
      [] content = "{description:}"          -> Findings(TRUE, TRUE, "")
      [] content = "{confirmed_out:[]}"      -> EmptyFindings
      [] content = "[1,2]"                   -> Findings(FALSE, FALSE, "")
      [] OTHER                               -> EmptyFindings

\* result.findings.get('description')
findings_get_description(f) ==
    IF f.has_description THEN f.description ELSE None

NoneResult == [kind |-> "None"]

ResearchResult(f) == [kind |-> "findings", findings |-> f]

\* AgentPipeline._validate_research_response
validate_research_accepts_all(result) == TRUE

validate_research_response(result) ==
    IF result.kind = "None" THEN FALSE
    ELSE IF ~result.findings.is_dict THEN FALSE
    ELSE IF falsy(findings_get_description(result.findings)) THEN FALSE
    ELSE TRUE

\* ---- AnalystAgent.analyze_injury_news ----
AnalystContents == {"Arsenal rotate", "**Arsenal** rotate", "### ", ""}

\* AnalystAgent.clean_response: strips **bold** markers and "### " headers
clean_response(text) ==
    CASE text = "**Arsenal** rotate" -> "Arsenal rotate"
      [] text = "### "               -> ""
      [] OTHER                       -> text

AnalystResult(text) == [kind |-> "analysis", team_analysis |-> text]

\* AgentPipeline._validate_analyst_response
validate_analyst_response(result) ==
    IF result.kind = "None" THEN FALSE
    ELSE IF falsy(result.team_analysis) THEN FALSE
    ELSE TRUE

\* ---- SharkAgent.analyze_player_risk_for_fixture ----
\* the alert lists the shark agent can return (player names)
AlertLists == {<<>>, <<"Saka">>, <<"Saka", "Gyokeres">>, <<"Saka", "Saka">>}

\* exceptions a host exchange can raise into an agent
HostFailures == {"TransportError", "BdbQuit", "KeyboardInterrupt"}

\* ---- the alert table ----
\* AlertService.save_alerts: one committed batch, every row under run_id
Batch(rid, fixture, alerts) == [run_id |-> rid, fixture |-> fixture, alerts |-> alerts]

\* AlertService.get_alerts_by_run_id(run_id), restricted to one fixture
alerts_for(st, rid, fixture) ==
    {i \in 1..Len(st) : st[i].run_id = rid /\ st[i].fixture = fixture}

NoAgent == [agent |-> "none", team |-> "none"]

\* an exception that left run_async: its class and, for AgentResponseError,
\* its agent_name attribute
Raised(e, name) == [type |-> e, agent_name |-> name]

NoExc == Raised("none", NoAgent)

\* _run_agent_with_retry: the for loop is over when attempt reaches max_retries
retries_exhausted_early(n, max_retries) == n >= max_retries - 1

retries_exhausted(n, max_retries) == n >= max_retries

\* how one call of _run_agent_with_retry ended: "returned" | "exhausted" |
\* "interrupted", the agent_name it was given, the number of agent_fn calls
\* it made, the outcome of each call, and the value it returned
RetryEnd(outcome, name, calls, log, result) ==
    [outcome |-> outcome, agent_name |-> name, calls |-> calls, log |-> log,
     result |-> result]

NoRetryEnd == RetryEnd("none", NoAgent, 0, <<>>, NoneResult)

\* the pipeline's variables while only a session is modelled
PipelineIdle ==
    /\ p_pc = "idle"
    /\ fixtures = <<>>
    /\ idx = 0
    /\ all_alerts = <<>>
    /\ exc = NoExc
    /\ store = <<>>
    /\ stage = "none"
    /\ ctx_i = 0
    /\ attempt = 0
    /\ t_attempt = 0
    /\ attempt_log = <<>>
    /\ research_response = None
    /\ team_analyses = <<>>
    /\ retry_end = NoRetryEnd
    /\ analyst_inputs = {}
    /\ shark_log = <<>>
    /\ interrupt_seen = "none"
    /\ research_content = None

\* last_step: the step's kind, the response it streamed (<<>> when it streamed
\* none), the exception it raised inside the function body, and the
\* ToolRegistry.execute calls it made
Step(kind, resp, e, ran) ==
    [kind |-> kind, response |-> resp, error |-> e, ran |-> ran]

(***************************************************************************)
(* GrokClient.chat_with_streaming                                          *)
(***************************************************************************)
\* lines 425-427, collecting the client-side calls in reverse (a mutant)
client_side_calls_reversed(resp) ==
    LET calls == SelectSeq(resp, LAMBDA tc : get_tool_call_type(tc) = "client_side_tool")
    IN [i \in 1..Len(calls) |-> calls[Len(calls) + 1 - i]]

\* lines 420-429: the client-side calls of the turn, in streaming order
client_side_calls(resp) ==
    SelectSeq(resp, LAMBDA tc : get_tool_call_type(tc) = "client_side_tool")

session_done_always(client_side_tool_calls) == TRUE

\* line 449: `if not client_side_tool_calls: break`
session_done(client_side_tool_calls) == client_side_tool_calls = <<>>

\* lines 455-462: the for loop over the turn's client-side calls.  st is
\* [chat, executed, raised]; the loop stops at the first exception.
RECURSIVE run_client_tools(_, _, _, _)
run_client_tools(calls, names, reg, st) ==
    IF calls = <<>> \/ st.raised # "none" THEN st
    ELSE LET tc == Head(calls) IN
         IF ~names.bound
         THEN [st EXCEPT !.raised = "UnboundLocalError"]
         ELSE IF tc.name \in Range(names.names)
         THEN IF json_loads(tc.arguments) = ParseError
              THEN [st EXCEPT !.raised = "JSONDecodeError"]
              ELSE LET args == json_loads(tc.arguments)
                       result == registry_execute(reg, tc.name, args)
                   IN run_client_tools(Tail(calls), names, reg,
                        [st EXCEPT
                           !.chat = Append(@, tool_result(result)),
                           !.executed =
                               Append(@, [name |-> tc.name, arguments |-> args])])
              \* unknown tool: warning, continue
         ELSE run_client_tools(Tail(calls), names, reg, st)

\* an exception e leaves the function body: tenacity calls the function
\* again (a fresh chat, fresh locals) or re-raises
SessionRaise(e) ==
    /\ IF tenacity_retries(e, attempt_number)
       THEN /\ attempt_number' = attempt_number + 1
            /\ s_pc' = "call"
            /\ raised' = "none"
       ELSE /\ s_pc' = "raised"
            /\ raised' = e
            /\ UNCHANGED attempt_number
    /\ executed' = <<>>
    /\ chat' = <<>>
    /\ research_turns' = 0
    /\ custom_tools_names' = NamesUnbound
    /\ UNCHANGED tool_registry

\* lines 375-414: rate-limit check passed, tools built, chat created
SessionBegin ==
    /\ UNCHANGED <<pipeline_vars, match_vars, enrich_vars, process_vars>>
    /\ s_pc = "call"
    /\ s_pc' = "loop"
    /\ custom_tools_names' = custom_tools_names_of(tool_registry)
    /\ chat' = InitialChat
    /\ research_turns' = 0
    /\ last_step' = Step("begin", <<>>, "none", <<>>)
    /\ UNCHANGED <<tool_registry, executed, attempt_number, raised>>

\* line 376: _check_rate_limit raises RateLimitExceeded
SessionRateLimited ==
    /\ UNCHANGED <<pipeline_vars, match_vars, enrich_vars, process_vars>>
    /\ s_pc = "call"
    /\ SessionRaise("RateLimitExceeded")
    /\ last_step' = Step("begin", <<>>, "RateLimitExceeded", <<>>)

\* lines 416-462: one iteration of `while True`
SessionTurn ==
    /\ UNCHANGED <<pipeline_vars, match_vars, enrich_vars, process_vars>>
    /\ s_pc = "loop"
    /\ research_turns < TurnBound
    /\ \E resp \in Responses :
         LET calls == client_side_calls(resp)
             chat1 == Append(chat, [role |-> "assistant", tool_calls |-> resp])
             st == run_client_tools(calls, custom_tools_names, tool_registry,
                      [chat |-> chat1, executed |-> <<>>, raised |-> "none"])
         IN IF session_done(calls)
            THEN /\ s_pc' = "returned"
                 /\ chat' = chat1
                 /\ research_turns' = research_turns + 1
                 /\ last_step' = Step("turn", resp, "none", <<>>)
                 /\ UNCHANGED <<tool_registry, custom_tools_names,
                                executed, attempt_number, raised>>
            ELSE IF st.raised # "none"
            THEN /\ SessionRaise(st.raised)
                 /\ last_step' = Step("turn", resp, st.raised, st.executed)
            ELSE /\ chat' = st.chat
                 /\ executed' = executed \o st.executed
                 /\ research_turns' = research_turns + 1
                 /\ last_step' = Step("turn", resp, "none", st.executed)
                 /\ UNCHANGED <<s_pc, tool_registry,
                                custom_tools_names, attempt_number, raised>>

\* line 423: chat.stream() raises: the host is unreachable or rejects the
\* request, the SDK's request deadline passes before the host answers (the
\* only time budget in force: chat_with_streaming takes no timeout and has
\* no awaitable form), or an interrupt arrives
SessionStreamRaises ==
    /\ UNCHANGED <<pipeline_vars, match_vars, enrich_vars, process_vars>>
    /\ s_pc = "loop"
    /\ research_turns < TurnBound
    /\ \E e \in {"TransportError", "DeadlineExceeded", "BdbQuit", "KeyboardInterrupt"} :
         /\ SessionRaise(e)
         /\ last_step' = Step("stream", <<>>, e, <<>>)

InitSession ==
    /\ ProcessIdle
    /\ s_pc = "call"
    /\ tool_registry \in Registries
    /\ custom_tools_names = NamesUnbound
    /\ research_turns = 0
    /\ chat = <<>>
    /\ executed = <<>>
    /\ attempt_number = 1
    /\ raised = "none"
    /\ last_step = Step("init", <<>>, "none", <<>>)
    /\ PipelineIdle
    /\ MatchIdle
    /\ EnrichIdle

NextSession ==
    \/ SessionBegin
    \/ SessionRateLimited
    \/ SessionTurn
    \/ SessionStreamRaises

SpecSession == InitSession /\ [][NextSession]_vars

(***************************************************************************)
(* Claims about the session.                                               *)
(***************************************************************************)
\* the responses of this attempt, in turn order
turn_responses ==
    LET asst == SelectSeq(chat, LAMBDA m : m.role = "assistant")
    IN [k \in 1..Len(asst) |-> asst[k].tool_calls]

\* a client-side call the registry binds and whose arguments parse
IsBoundCall(tc) ==
    /\ get_tool_call_type(tc) = "client_side_tool"
    /\ tc.name \in Range(tool_registry.tools)

IsUnboundCall(tc) ==
    /\ get_tool_call_type(tc) = "client_side_tool"
    /\ tc.name \notin Range(tool_registry.tools)

\* the executor invocation a bound call asks for
Invocation(tc) == [name |-> tc.name, arguments |-> json_loads(tc.arguments)]

\* turn 1 of this attempt held exactly one local request, for a bound tool
OneLocalRequestOnTurn1 ==
    /\ Len(turn_responses) >= 1
    /\ Len(client_side_calls(turn_responses[1])) = 1
    /\ IsBoundCall(client_side_calls(turn_responses[1])[1])

NoLocalRequestOnTurn2 ==
    /\ Len(turn_responses) >= 2
    /\ client_side_calls(turn_responses[2]) = <<>>

\* C1: with one local tool request on turn 1 and none on turn 2 the session
\* submits exactly 2 turns and returns, and the executor has been invoked
\* exactly once, with the arguments of turn 1's request: after turn 1 the
\* session is still open with that one invocation made, and turn 2 ends it.
C1_TwoTurnsOneExecution ==
    OneLocalRequestOnTurn1 =>
        LET tc == client_side_calls(turn_responses[1])[1] IN
        /\ Len(turn_responses) = 1 =>
              /\ s_pc = "loop"
              /\ research_turns = 1
              /\ executed = <<Invocation(tc)>>
        /\ NoLocalRequestOnTurn2 =>
              /\ s_pc = "returned"
              /\ research_turns = 2
              /\ Len(turn_responses) = 2
              /\ executed = <<Invocation(tc)>>

C1_Witness ==
    /\ OneLocalRequestOnTurn1
    /\ NoLocalRequestOnTurn2
    /\ s_pc = "returned"
    /\ research_turns = 2
    /\ executed = <<[name |-> RosterTool, arguments |-> [team |-> "Brentford"]]>>

\* the session ends at the first turn without a local request
EndsAtFirstLocalFreeTurn ==
    LET R == turn_responses IN
    /\ \A k \in 1..Len(R) :
          k < Len(R) => client_side_calls(R[k]) # <<>>
    /\ Len(R) >= 1 =>
          (s_pc = "returned" <=> client_side_calls(R[Len(R)]) = <<>>)

\* C2: a session ends at the first turn that yields zero local requests and
\* never submits more turns than the configured max-turn cap.
C2_EndsAndRespectsCap ==
    /\ EndsAtFirstLocalFreeTurn
    /\ \A cap \in ConfiguredCaps : research_turns <= cap

\* C3: a turn holding a local request for a tool the registry does not bind
\* does not raise; the bound requests of the turn are executed, in order, and
\* the session goes on to the next turn.
C3_UnboundSkipped ==
    LET resp == last_step.response
        bound == SelectSeq(resp, IsBoundCall)
    IN (/\ last_step.kind = "turn"
        /\ \E i \in 1..Len(resp) : IsUnboundCall(resp[i])
        /\ \A i \in 1..Len(bound) : json_loads(bound[i].arguments) # ParseError)
       => /\ last_step.error = "none"
          /\ s_pc = "loop"
          /\ last_step.ran = [i \in 1..Len(bound) |-> Invocation(bound[i])]

\* the same, for a registry that holds at least one tool
C3_UnboundSkippedWithTools ==
    registry_truthy(tool_registry) => C3_UnboundSkipped

(***************************************************************************)
(* ProjectionAlertPipeline.run_async and AgentPipeline.run.  Every action  *)
(* is one host exchange (or one step of run_async) together with all the   *)
(* code that runs until the next exchange: parsing, validation, the retry  *)
(* loop's decision, the save, and the propagation of an exception through  *)
(* every handler up to the point where it is caught or leaves run_async.   *)
(***************************************************************************)
\* the session's variables while the pipeline is modelled
SessionIdle ==
    /\ s_pc = "idle"
    /\ tool_registry = [none |-> FALSE, tools |-> <<RosterTool>>]
    /\ custom_tools_names = NamesUnbound
    /\ research_turns = 0
    /\ chat = <<>>
    /\ executed = <<>>
    /\ attempt_number = 0
    /\ raised = "none"
    /\ last_step = Step("init", <<>>, "none", <<>>)

\* the team context the running agent works on
context_now == generate_team_contexts(fixtures[idx])[ctx_i]

agent_name_now == agent_name_of(stage, context_now)

\* exception e leaves run_async: no handler between the raise and the caller
\* of run_async catches it (run_agents_for_fixture re-raises what it catches)
AbortSwallowed(e, name) ==
    /\ p_pc' = "agent"
    /\ exc' = Raised(e, name)

Abort(e, name) ==
    /\ p_pc' = "aborted"
    /\ exc' = Raised(e, name)

\* the record interrupt_seen keeps of an exception raised by a host exchange
note_interrupt(e) ==
    IF e \in DeliberateInterrupts THEN e ELSE interrupt_seen

\* _run_agent_with_retry, lines 102-120: the agent_fn call of this attempt
\* ended without a valid result (kind "invalid": validator rejected it;
\* kind "exception": it raised an Exception other than BdbQuit)
AttemptFailed(kind) ==
    LET log == Append(attempt_log, kind)
    IN /\ attempt_log' = log
       /\ IF retries_exhausted(attempt, max_retries_default)
          THEN /\ retry_end' = RetryEnd("exhausted", agent_name_now, attempt,
                                        log, NoneResult)
               /\ Abort("AgentResponseError", agent_name_now)
               /\ UNCHANGED <<attempt, t_attempt>>
          ELSE /\ attempt' = attempt + 1
               /\ t_attempt' = 1
               /\ UNCHANGED <<p_pc, exc, retry_end>>
       /\ UNCHANGED <<stage, ctx_i, research_response, team_analyses,
                      idx, all_alerts, store>>

\* an interrupt e leaves agent_fn and reaches _run_agent_with_retry:
\* KeyboardInterrupt is not an Exception, BdbQuit is re-raised at line 113
AttemptInterrupted(e) ==
    /\ retry_end' = RetryEnd("interrupted", agent_name_now, attempt,
                             Append(attempt_log, "interrupt"), NoneResult)
    /\ attempt_log' = Append(attempt_log, "interrupt")
    /\ Abort(e, NoAgent)
    /\ UNCHANGED <<stage, ctx_i, attempt, t_attempt, research_response,
                   team_analyses, idx, all_alerts, store>>

\* an exception e leaves agent_fn and reaches _run_agent_with_retry
AttemptRaised(e) ==
    IF IsException(e) /\ e # "BdbQuit"
    THEN AttemptFailed("exception")
    ELSE AttemptInterrupted(e)

\* run(), lines 220-224: the research retry loop returned result; its
\* description becomes research_response and the analyst's retry loop starts.
\* Line 221 reads result.server_side_tool_usage, an attribute the result
\* model only has in some builds: the read succeeds or raises AttributeError
ResearchAccepted(result) ==
    /\ retry_end' = RetryEnd("returned", agent_name_now, attempt,
                             Append(attempt_log, "valid"), result)
    /\ \E usage_readable \in BOOLEAN :
         IF usage_readable
         THEN /\ research_response' = findings_get_description(result.findings)
              /\ stage' = "analyst"
              /\ attempt' = 1
              /\ t_attempt' = 1
              /\ attempt_log' = <<>>
              /\ UNCHANGED <<p_pc, exc>>
         ELSE /\ Abort("AttributeError", NoAgent)
              /\ attempt_log' = Append(attempt_log, "valid")
              /\ UNCHANGED <<research_response, stage, attempt, t_attempt>>
    /\ UNCHANGED <<ctx_i, team_analyses, idx, all_alerts, store>>

\* _run_agent_with_retry, lines 95-106, for the research agent
ResearchReturned(result) ==
    IF validate_research_response(result)
    THEN ResearchAccepted(result)
    ELSE AttemptFailed("invalid")

\* research_team, lines 147-158: `except Exception` builds
\* InjuryResearchFindings(findings=[]); the dict-typed field either coerces
\* the empty list to {} or rejects it with ValidationError, by build
ResearchErrorPath ==
    \E coerces \in BOOLEAN :
      IF coerces
      THEN ResearchReturned(ResearchResult(EmptyFindings))
      ELSE AttemptRaised("ValidationError")

\* research_team, lines 118-145: the session returned final text `content`
ResearchHostReturns ==
    /\ UNCHANGED <<session_vars, match_vars, enrich_vars, process_vars>>
    /\ p_pc = "agent"
    /\ stage = "research"
    /\ \E content \in ResearchContents :
         LET f == research_json_loads(content)
         IN /\ research_content' = content
            /\ IF f.is_dict
               THEN ResearchReturned(ResearchResult(f))
               ELSE ResearchErrorPath
    /\ UNCHANGED <<fixtures, analyst_inputs, shark_log, interrupt_seen>>

\* research_team, line 118: chat_with_streaming raises e.  tenacity calls it
\* again while e is an Exception and attempts remain; afterwards an Exception
\* is caught by research_team's handler, anything else propagates
ResearchHostRaises ==
    /\ UNCHANGED <<session_vars, match_vars, enrich_vars, process_vars>>
    /\ p_pc = "agent"
    /\ stage = "research"
    /\ \E e \in HostFailures :
         /\ interrupt_seen' = note_interrupt(e)
         /\ IF tenacity_retries(e, t_attempt)
            THEN /\ t_attempt' = t_attempt + 1
                 /\ UNCHANGED <<p_pc, exc, stage, ctx_i, attempt, attempt_log,
                                research_response, team_analyses, retry_end,
                                idx, all_alerts, store>>
            ELSE IF IsException(e)
            THEN ResearchErrorPath
            ELSE AttemptRaised(e)
    /\ research_content' = None
    /\ UNCHANGED <<fixtures, analyst_inputs, shark_log>>

\* run(), lines 231-239: the analyst retry loop returned result; the triple
\* (context, research, analyst) is appended, then the next team's research
\* starts or, after the second team, the shark agent is called
AnalystAccepted(result) ==
    /\ retry_end' = RetryEnd("returned", agent_name_now, attempt,
                             Append(attempt_log, "valid"), result)
    /\ \E usage_readable \in BOOLEAN :
         IF usage_readable
         THEN /\ team_analyses' =
                   Append(team_analyses,
                          [context |-> context_now,
                           research |-> research_response,
                           analyst |-> result.team_analysis])
              /\ IF ctx_i < Len(generate_team_contexts(fixtures[idx]))
                 THEN /\ ctx_i' = ctx_i + 1
                      /\ stage' = "research"
                 ELSE /\ stage' = "shark"
                      /\ UNCHANGED ctx_i
              /\ attempt' = 1
              /\ t_attempt' = 1
              /\ attempt_log' = <<>>
              /\ UNCHANGED <<p_pc, exc>>
         ELSE /\ Abort("AttributeError", NoAgent)
              /\ attempt_log' = Append(attempt_log, "valid")
              /\ UNCHANGED <<team_analyses, ctx_i, stage, attempt, t_attempt>>
    /\ UNCHANGED <<research_response, idx, all_alerts, store>>

\* _run_agent_with_retry, lines 95-106, for the analyst agent
AnalystReturned(result) ==
    IF validate_analyst_response(result)
    THEN AnalystAccepted(result)
    ELSE AttemptFailed("invalid")

\* analyze_injury_news, lines 54-75: the host returned text `content`
AnalystHostReturns ==
    /\ UNCHANGED <<session_vars, match_vars, enrich_vars, process_vars>>
    /\ p_pc = "agent"
    /\ stage = "analyst"
    /\ analyst_inputs' = analyst_inputs \cup {research_response}
    /\ \E content \in AnalystContents :
         AnalystReturned(AnalystResult(clean_response(content)))
    /\ research_content' = None
    /\ UNCHANGED <<fixtures, shark_log, interrupt_seen>>

\* analyze_injury_news, lines 54-68: the host exchange raises e; after
\* tenacity's attempts an Exception is caught and None is returned
AnalystHostRaises ==
    /\ UNCHANGED <<session_vars, match_vars, enrich_vars, process_vars>>
    /\ p_pc = "agent"
    /\ stage = "analyst"
    /\ analyst_inputs' = analyst_inputs \cup {research_response}
    /\ \E e \in HostFailures :
         /\ interrupt_seen' = note_interrupt(e)
         /\ IF tenacity_retries(e, t_attempt)
            THEN /\ t_attempt' = t_attempt + 1
                 /\ UNCHANGED <<p_pc, exc, stage, ctx_i, attempt, attempt_log,
                                research_response, team_analyses, retry_end,
                                idx, all_alerts, store>>
            ELSE IF IsException(e)
            THEN AnalystReturned(NoneResult)
            ELSE AttemptRaised(e)
    /\ research_content' = None
    /\ UNCHANGED <<fixtures, shark_log>>

\* analyze_injury_news, lines 45-50: rendering the prompts raises, outside
\* the function's try block (strict_format's ValueError, or a debugger quit)
AnalystPromptRaises ==
    /\ UNCHANGED <<session_vars, match_vars, enrich_vars, process_vars>>
    /\ p_pc = "agent"
    /\ stage = "analyst"
    /\ analyst_inputs' = analyst_inputs \cup {research_response}
    /\ \E e \in {"ValueError", "BdbQuit"} : AttemptRaised(e)
    /\ research_content' = None
    /\ UNCHANGED <<fixtures, shark_log, interrupt_seen>>

\* run_and_save, lines 257-259, then run_agents_for_fixture 144-145 and
\* run_async 286: a non-empty alert list is saved as one batch under run_id
\* (the commit succeeds or the session rolls back and raises), the alerts
\* join all_alerts and the loop moves to the next fixture
SaveAndContinue(alerts) ==
    \E committed \in BOOLEAN :
      IF alerts = <<>> \/ committed
      THEN /\ store' = IF alerts = <<>> THEN store
                       ELSE Append(store, Batch(run_id, fixtures[idx], alerts))
           /\ all_alerts' = all_alerts \o alerts
           /\ idx' = idx + 1
           /\ p_pc' = "fixture"
           /\ UNCHANGED exc
      ELSE /\ Abort("OperationalError", NoAgent)
           /\ UNCHANGED <<store, all_alerts, idx>>

\* run(), lines 240-244, analyze_player_risk_for_fixture 48-66: the shark
\* agent is called directly, outside _run_agent_with_retry, with the
\* accumulated triples; the host returned text that parses to `alerts`.
\* Line 241 reads attributes of the returned value that only some builds
\* give it
SharkHostReturns ==
    /\ UNCHANGED <<session_vars, match_vars, enrich_vars, process_vars>>
    /\ p_pc = "agent"
    /\ stage = "shark"
    /\ shark_log' = Append(shark_log, [idx |-> idx, input |-> team_analyses])
    /\ \E alerts \in AlertLists, usage_readable \in BOOLEAN :
         IF usage_readable
         THEN SaveAndContinue(alerts)
         ELSE /\ Abort("AttributeError", NoAgent)
              /\ UNCHANGED <<store, all_alerts, idx>>
    /\ research_content' = None
    /\ UNCHANGED <<fixtures, stage, ctx_i, attempt, t_attempt, attempt_log,
                   research_response, team_analyses, retry_end,
                   analyst_inputs, interrupt_seen>>

\* analyze_player_risk_for_fixture, line 52: the host exchange raises e.
\* tenacity repeats the exchange; nothing else on the way out catches e
SharkHostRaises ==
    /\ UNCHANGED <<session_vars, match_vars, enrich_vars, process_vars>>
    /\ p_pc = "agent"
    /\ stage = "shark"
    /\ \E e \in HostFailures :
         /\ interrupt_seen' = note_interrupt(e)
         /\ IF tenacity_retries(e, t_attempt)
            THEN /\ t_attempt' = t_attempt + 1
                 /\ UNCHANGED <<p_pc, exc, shark_log>>
            ELSE /\ Abort(e, NoAgent)
                 /\ shark_log' = Append(shark_log,
                                        [idx |-> idx, input |-> team_analyses])
                 /\ UNCHANGED t_attempt
    /\ research_content' = None
    /\ UNCHANGED <<fixtures, idx, all_alerts, store, stage, ctx_i, attempt,
                   attempt_log, research_response, team_analyses, retry_end,
                   analyst_inputs>>

\* run_async, lines 250-271: an empty fixture list ends the run at once
RunStart ==
    /\ UNCHANGED <<session_vars, match_vars, enrich_vars, process_vars>>
    /\ p_pc = "start"
    /\ IF fixtures = <<>>
       THEN p_pc' = "exited" /\ UNCHANGED idx
       ELSE p_pc' = "fixture" /\ idx' = 1
    /\ research_content' = None
    /\ UNCHANGED <<fixtures, all_alerts, exc, store, stage, ctx_i, attempt,
                   t_attempt, attempt_log, research_response, team_analyses,
                   retry_end, analyst_inputs, shark_log, interrupt_seen>>

\* run_async 272-285, run_agents_for_fixture 123-143, run_and_save 256,
\* run 206-219: the next fixture enters the agent pipeline
FixtureBegin ==
    /\ UNCHANGED <<session_vars, match_vars, enrich_vars, process_vars>>
    /\ p_pc = "fixture"
    /\ idx <= Len(fixtures)
    /\ p_pc' = "agent"
    /\ stage' = "research"
    /\ ctx_i' = 1
    /\ attempt' = 1
    /\ t_attempt' = 1
    /\ attempt_log' = <<>>
    /\ team_analyses' = <<>>
    /\ research_response' = None
    /\ research_content' = None
    /\ UNCHANGED <<fixtures, idx, all_alerts, exc, store, retry_end,
                   analyst_inputs, shark_log, interrupt_seen>>

\* run_async, lines 288-313: enrichment and the closing summary
Finish ==
    /\ UNCHANGED <<session_vars, match_vars, enrich_vars, process_vars>>
    /\ p_pc = "fixture"
    /\ idx > Len(fixtures)
    /\ p_pc' = "summary"
    /\ research_content' = None
    /\ UNCHANGED <<fixtures, idx, all_alerts, exc, store, stage, ctx_i,
                   attempt, t_attempt, attempt_log, research_response,
                   team_analyses, retry_end, analyst_inputs, shark_log,
                   interrupt_seen>>

\* rows an earlier run (another run_id) may have left in the alert table
EarlierStores ==
    {<<>>, <<Batch("2025_12_31_090000", <<"Arsenal", "Brentford">>, <<"Saka">>)>>}

Init ==
    /\ ProcessIdle
    /\ SessionIdle
    /\ MatchIdle
    /\ EnrichIdle
    /\ p_pc = "start"
    /\ fixtures \in FixtureLists
    /\ idx = 0
    /\ all_alerts = <<>>
    /\ exc = NoExc
    /\ store \in EarlierStores
    /\ stage = "none"
    /\ ctx_i = 0
    /\ attempt = 0
    /\ t_attempt = 0
    /\ attempt_log = <<>>
    /\ research_response = None
    /\ team_analyses = <<>>
    /\ retry_end = NoRetryEnd
    /\ analyst_inputs = {}
    /\ shark_log = <<>>
    /\ interrupt_seen = "none"
    /\ research_content = None

Next ==
    \/ RunStart
    \/ FixtureBegin
    \/ ResearchHostReturns
    \/ ResearchHostRaises
    \/ AnalystHostReturns
    \/ AnalystHostRaises
    \/ AnalystPromptRaises
    \/ SharkHostReturns
    \/ SharkHostRaises
    \/ Finish

Spec == Init /\ [][Next]_vars

(***************************************************************************)
(* Claims about the agent pipeline and the fixture loop.                   *)
(***************************************************************************)
\* position of the first "valid" entry of a retry loop's log, 0 when none
FirstValid(log) ==
    IF \E i \in 1..Len(log) : log[i] = "valid"
    THEN CHOOSE i \in 1..Len(log) :
           /\ log[i] = "valid"
           /\ \A j \in 1..(i - 1) : log[j] # "valid"
    ELSE 0

\* the validator _run_agent_with_retry was given for this agent
validator_of(name, result) ==
    IF name.agent = "research" THEN validate_research_response(result)
    ELSE validate_analyst_response(result)

\* C4: _run_agent_with_retry never calls the agent function more than
\* max_retries (3) times; when no call gave a valid result it has made exactly
\* max_retries calls and AgentResponseError carrying the failing agent's
\* agent_name is raised; when call k is the first whose result validates,
\* exactly k calls were made and that validated result is returned.
C4_RetryCallCount ==
    /\ attempt <= max_retries_default
    /\ p_pc = "agent" /\ stage # "shark" => Len(attempt_log) = attempt - 1
    /\ retry_end.outcome = "exhausted" =>
         /\ Len(retry_end.log) = max_retries_default
         /\ retry_end.calls = max_retries_default
         /\ FirstValid(retry_end.log) = 0
         /\ p_pc = "aborted"
         /\ exc = Raised("AgentResponseError", agent_name_now)
         /\ retry_end.agent_name = agent_name_now
    /\ retry_end.outcome = "returned" =>
         /\ retry_end.calls = FirstValid(retry_end.log)
         /\ retry_end.calls = Len(retry_end.log)
         /\ retry_end.calls \in 1..max_retries_default
         /\ validator_of(retry_end.agent_name, retry_end.result)

\* the retry loop ran out after three rejected results
C4_Witness ==
    /\ retry_end.outcome = "exhausted"
    /\ retry_end.log = <<"invalid", "invalid", "invalid">>
    /\ exc.type = "AgentResponseError"

\* C5: a deliberate interrupt raised during an agent's host exchange
\* triggers no further attempt in any retry layer: once one has been raised
\* the run has ended with that interrupt.
C5_InterruptPropagates ==
    interrupt_seen # "none" =>
        /\ p_pc = "aborted"
        /\ exc.type = interrupt_seen

\* C6: the agent pipeline is only entered for a fixture for which the store
\* holds no alerts under the current run id (otherwise the persisted alerts
\* are returned instead).
C6_StoreCheckedBeforeAttempt ==
    p_pc = "agent" => alerts_for(store, run_id, fixtures[idx]) = {}

\* C7: the store never holds two saved batches for the same run id and
\* fixture.
C7_SavedAtMostOnce ==
    \A f \in FixtureNames : Cardinality(alerts_for(store, run_id, f)) <= 1

\* C8: a fixture whose pipeline fails irrecoverably is skipped: apart from a
\* deliberate interrupt, no failure ends the run before its summary.
C8_BadFixtureSkipped ==
    p_pc = "aborted" => exc.type \in DeliberateInterrupts

\* C9: the analyst agent is only ever called with a research description
\* that passed the research validator, i.e. a non-empty description; None
\* and "" (empty findings, findings without description) never reach it.
C9_AnalystGetsValidResearch ==
    /\ \A injury_news \in analyst_inputs : ~falsy(injury_news)
    /\ p_pc = "agent" /\ stage = "analyst" => ~falsy(research_response)

\* the analyst was called after the research retry loop rejected a result
C9_Witness ==
    /\ analyst_inputs # {}
    /\ retry_end.agent_name.agent = "research"
    /\ retry_end.outcome = "returned"
    /\ retry_end.log[1] # "valid"

\* the shark input is one triple per team of the fixture, mirrored
MirroredTriples(input, fixture) ==
    /\ Len(input) = 2
    /\ \A i \in 1..Len(input) :
         /\ input[i].context.fixture = fixture
         /\ ~falsy(input[i].research)
         /\ ~falsy(input[i].analyst)
    /\ input[1].context.team = fixture[1]
    /\ input[1].context.opponent = fixture[2]
    /\ input[2].context.team = input[1].context.opponent
    /\ input[2].context.opponent = input[1].context.team

\* C10: within one execution of AgentPipeline.run the shark agent is called
\* at most once, only after both teams' research and analyst calls returned
\* valid output, with exactly two (context, research, analysis) triples, one
\* per team, team and opponent mirrored.
C10_SharkOnceAfterBoth ==
    /\ \A i, j \in 1..Len(shark_log) :
         shark_log[i].idx = shark_log[j].idx => i = j
    /\ \A i \in 1..Len(shark_log) :
         MirroredTriples(shark_log[i].input, fixtures[shark_log[i].idx])
    /\ p_pc = "agent" /\ stage = "shark" =>
         MirroredTriples(team_analyses, fixtures[idx])

\* the shark agent has been called in two executions of run
C10_Witness ==
    /\ Len(shark_log) = 2
    /\ shark_log[1].idx # shark_log[2].idx

\* alert batches the current run has saved
run_batches == {i \in 1..Len(store) : store[i].run_id = run_id}

\* C11: when a Research or Analyst retry loop is exhausted, the
\* AgentResponseError it raised leaves run and run_and_save as raised (same
\* class, same agent_name) and ends the run; the shark agent has not been
\* called for that fixture and nothing has been saved by that invocation
\* (every saved batch follows a shark call of an earlier fixture).
C11_ExhaustionPropagates ==
    exc.type = "AgentResponseError" =>
        /\ p_pc = "aborted"
        /\ retry_end.outcome = "exhausted"
        /\ retry_end.agent_name.agent \in {"research", "analyst"}
        /\ exc = Raised("AgentResponseError", retry_end.agent_name)
        /\ \A i \in 1..Len(shark_log) : shark_log[i].idx < idx
        /\ Cardinality(run_batches) <= Len(shark_log)

\* the analyst of the second fixture ran out of attempts after the first
\* fixture's alerts were saved
C11_Witness ==
    /\ exc.type = "AgentResponseError"
    /\ retry_end.agent_name.agent = "analyst"
    /\ idx = 2
    /\ Len(shark_log) = 1
    /\ run_batches # {}

\* C12: the alert list the shark agent returns for a fixture (and run_and_save
\* saves) holds at most one alert per distinct player.
C12_OneAlertPerPlayer ==
    \A b \in 1..Len(store) :
      \A i, j \in 1..Len(store[b].alerts) :
        store[b].alerts[i] = store[b].alerts[j] => i = j

(***************************************************************************)
(* Claims about the session's time budget and transport-level retry.       *)
(***************************************************************************)
\* C13: when the time budget of a session expires during an exchange, the
\* session returns a failure result marked as a timeout and does not raise
\* (nor start over).
C13_TimeoutGivesSentinel ==
    last_step.error = "DeadlineExceeded" =>
        /\ s_pc = "returned"
        /\ raised = "none"

Whitespace == {" ", "\t"}

\* the characters re.sub(r"['\-\.]", "", ...) deletes
Punctuation == {"'", "-", "."}

\* the Unicode category "Mn" (combining mark), as one character
CombiningMark == "Mn"

UpperCase ==
    <<"A", "B", "C", "D", "E", "F", "G", "H", "I", "J", "K", "L", "M",
      "N", "O", "P", "Q", "R", "S", "T", "U", "V", "W", "X", "Y", "Z", "O:">>

LowerCase ==
    <<"a", "b", "c", "d", "e", "f", "g", "h", "i", "j", "k", "l", "m",
      "n", "o", "p", "q", "r", "s", "t", "u", "v", "w", "x", "y", "z", "o:">>

\* str.lower(), per character
lower_char(c) ==
    IF \E i \in 1..Len(UpperCase) : UpperCase[i] = c
    THEN LowerCase[CHOOSE i \in 1..Len(UpperCase) : UpperCase[i] = c]
    ELSE c

\* unicodedata.normalize("NFD", c): an accented letter decomposes into its
\* base letter followed by a combining mark
nfd_char(c) ==
    CASE c = "o:" -> <<"o", CombiningMark>>
      [] c = "O:" -> <<"O", CombiningMark>>
      [] c = "a~" -> <<"a", CombiningMark>>
      [] OTHER -> <<c>>

RECURSIVE flatten(_)
flatten(ss) == IF ss = <<>> THEN <<>> ELSE Head(ss) \o flatten(Tail(ss))

str_lower(s) == [i \in 1..Len(s) |-> lower_char(s[i])]

RECURSIVE lstrip(_)
lstrip(s) ==
    IF s # <<>> /\ Head(s) \in Whitespace THEN lstrip(Tail(s)) ELSE s

RECURSIVE rstrip(_)
rstrip(s) ==
    IF s # <<>> /\ s[Len(s)] \in Whitespace
    THEN rstrip(SubSeq(s, 1, Len(s) - 1))
    ELSE s

\* str.strip()
str_strip(s) == rstrip(lstrip(s))

\* str.split(): the maximal runs of non-whitespace characters
RECURSIVE split_from(_, _, _)
split_from(s, word, acc) ==
    IF s = <<>>
    THEN IF word = <<>> THEN acc ELSE Append(acc, word)
    ELSE IF Head(s) \in Whitespace
    THEN split_from(Tail(s), <<>>,
                    IF word = <<>> THEN acc ELSE Append(acc, word))
    ELSE split_from(Tail(s), Append(word, Head(s)), acc)

str_split(s) == split_from(s, <<>>, <<>>)

\* " ".join(parts)
RECURSIVE join_space(_)
join_space(parts) ==
    IF parts = <<>> THEN <<>>
    ELSE IF Len(parts) = 1 THEN parts[1]
    ELSE parts[1] \o <<" ">> \o join_space(Tail(parts))

\* PlayerMatcher.normalize: lower-case and strip, drop accents, collapse
\* whitespace, then delete ' - and . (in this order)
normalize(name) ==
    IF name = <<>> THEN <<>>
    ELSE LET lowered == str_strip(str_lower(name))
             decomposed == flatten([i \in 1..Len(lowered) |-> nfd_char(lowered[i])])
             unaccented == SelectSeq(decomposed, LAMBDA c : c # CombiningMark)
             spaced == join_space(str_split(unaccented))
         IN SelectSeq(spaced, LAMBDA c : c \notin Punctuation)

\* PlayerMatcher.extract_surname, taking the first word (a mutant)
extract_first_word(name) ==
    LET parts == str_split(normalize(name))
    IN IF parts # <<>> THEN parts[1] ELSE <<>>

\* PlayerMatcher.extract_surname
extract_surname(name) ==
    LET parts == str_split(normalize(name))
    IN IF parts # <<>> THEN parts[Len(parts)] ELSE <<>>

\* Python's `needle in haystack` on strings
str_in(needle, haystack) ==
    \E i \in 0..(Len(haystack) - Len(needle)) :
       SubSeq(haystack, i + 1, i + Len(needle)) = needle

\* levenshtein_distance, lines 117-122: one row of the table, built left to
\* right from the previous row
RECURSIVE levenshtein_row(_, _, _, _)
levenshtein_row(previous_row, current_row, c1, s2) ==
    LET j == Len(current_row)
    IN IF j > Len(s2) THEN current_row
       ELSE LET insertions == previous_row[j + 1] + 1
                deletions == current_row[j] + 1
                substitutions == previous_row[j] + (IF c1 # s2[j] THEN 1 ELSE 0)
                smallest == IF insertions <= deletions /\ insertions <= substitutions
                            THEN insertions
                            ELSE IF deletions <= substitutions THEN deletions
                            ELSE substitutions
            IN levenshtein_row(previous_row, Append(current_row, smallest), c1, s2)

RECURSIVE levenshtein_rows(_, _, _, _)
levenshtein_rows(previous_row, i, s1, s2) ==
    IF i > Len(s1) \/ Len(previous_row) # Len(s2) + 1 THEN previous_row
    ELSE levenshtein_rows(levenshtein_row(previous_row, <<i>>, s1[i], s2),
                          i + 1, s1, s2)

\* PlayerMatcher.levenshtein_distance (rows are 1-indexed here: row[j + 1]
\* is the code's row[j])
RECURSIVE levenshtein_distance(_, _)
levenshtein_distance(s1, s2) ==
    IF Len(s1) < Len(s2) THEN levenshtein_distance(s2, s1)
    ELSE IF Len(s2) = 0 THEN Len(s1)
    ELSE LET last_row == levenshtein_rows([j \in 1..(Len(s2) + 1) |-> j - 1],
                                          1, s1, s2)
         IN last_row[Len(last_row)]

\* PlayerMatcher(threshold=0.80): the default threshold, in hundredths
threshold_percent == 80

\* a score in [0, 1] as the fraction num / den
Score(num, den) == [num |-> num, den |-> den]

score_ge_threshold(score) == score.num * 100 >= threshold_percent * score.den

score_gt(a, b) == a.num * b.den > b.num * a.den

Max2(a, b) == IF a >= b THEN a ELSE b

\* PlayerMatcher.similarity_score
similarity_score(name1, name2) ==
    LET n1 == normalize(name1)
        n2 == normalize(name2)
    IN IF n1 = <<>> \/ n2 = <<>> THEN Score(0, 1)
       ELSE IF n1 = n2 THEN Score(1, 1)
       ELSE LET distance == levenshtein_distance(n1, n2)
                max_len == Max2(Len(n1), Len(n2))
            IN Score(max_len - distance, max_len)

\* minimum length of the shorter name in the containment rule (line 183)
min_substring_length == 5

\* minimum length of a shared surname (line 190)
min_surname_length == 4

\* line 182, with the choice of the shorter name fixed to the first (a mutant)
shorter_is_first(n1, n2) == n1

\* line 182: shorter = n1 if len(n1) < len(n2) else n2
shorter_of(n1, n2) == IF Len(n1) < Len(n2) THEN n1 ELSE n2

\* PlayerMatcher.is_match, strategy by strategy, with its early returns
is_match(name1, name2) ==
    LET n1 == normalize(name1)
        n2 == normalize(name2)
        surname1 == extract_surname(name1)
        surname2 == extract_surname(name2)
        parts1 == str_split(n1)
        parts2 == str_split(n2)
    IN IF n1 = n2 THEN TRUE
       ELSE IF /\ str_in(n1, n2) \/ str_in(n2, n1)
               /\ Len(shorter_of(n1, n2)) >= min_substring_length
       THEN TRUE
       ELSE IF /\ surname1 = surname2
               /\ Len(surname1) >= min_surname_length
               /\ \/ Len(parts1) = 1
                  \/ Len(parts2) = 1
                  \/ parts1[1][1] = parts2[1][1]
       THEN TRUE
       ELSE score_ge_threshold(similarity_score(name1, name2))

\* the result of find_best_match: None, or the pair (best_match, best_score)
NoMatch == [found |-> FALSE, name |-> <<>>, score |-> Score(0, 1)]

BestMatch(name, score) == [found |-> TRUE, name |-> name, score |-> score]

\* find_best_match, lines 232-237: the loop over the candidates
RECURSIVE best_of(_, _, _, _)
best_of(target_name, candidates, best_match, best_score) ==
    IF candidates = <<>> THEN [match |-> best_match, score |-> best_score]
    ELSE LET candidate == Head(candidates)
             score == similarity_score(target_name, candidate)
         IN IF is_match(target_name, candidate) /\ score_gt(score, best_score)
            THEN best_of(target_name, Tail(candidates),
                         [none |-> FALSE, name |-> candidate], score)
            ELSE best_of(target_name, Tail(candidates), best_match, best_score)

\* PlayerMatcher.find_best_match; `if best_match` is false for None and for
\* the empty string
find_best_match(target_name, candidates) ==
    IF candidates = <<>> THEN NoMatch
    ELSE LET best == best_of(target_name, candidates,
                             [none |-> TRUE, name |-> <<>>], Score(0, 1))
         IN IF /\ ~best.match.none
               /\ best.match.name # <<>>
               /\ score_ge_threshold(best.score)
            THEN BestMatch(best.match.name, best.score)
            ELSE NoMatch

(***************************************************************************)
(* Player names the matcher is called with.                                *)
(***************************************************************************)
LetterA ==
    <<"A">>

AaronRamsdale ==
    <<"A", "a", "r", "o", "n", " ", "R", "a", "m", "s", "d", "a", "l", "e">>

Gabriel ==
    <<"G", "a", "b", "r", "i", "e", "l">>

GabrielMagalhaes ==
    <<"G", "a", "b", "r", "i", "e", "l", " ", "M", "a", "g", "a", "l",
      "h", "a", "e", "s">>

GabrielMagalhaesAccented ==
    <<"G", "a", "b", "r", "i", "e", "l", " ", "M", "a", "g", "a", "l",
      "h", "a~", "e", "s">>

GabrielJesus ==
    <<"G", "a", "b", "r", "i", "e", "l", " ", "J", "e", "s", "u", "s">>

WSaliba ==
    <<"W", ".", " ", "S", "a", "l", "i", "b", "a">>

WilliamSaliba ==
    <<"W", "i", "l", "l", "i", "a", "m", " ", "S", "a", "l", "i", "b", "a">>

ViktorGyokeresAccented ==
    <<"V", "i", "k", "t", "o", "r", " ", "G", "y", "o:", "k", "e", "r",
      "e", "s">>

ViktorGyokeres ==
    <<"V", "i", "k", "t", "o", "r", " ", "G", "y", "o", "k", "e", "r",
      "e", "s">>

BukayoSaka ==
    <<"B", "u", "k", "a", "y", "o", " ", "S", "a", "k", "a">>

\* longest of the short names
MaxShortName == 2

\* names as the projections table and the alerts spell them
KnownNames ==
    {LetterA, AaronRamsdale, Gabriel, GabrielMagalhaes,
     GabrielMagalhaesAccented, GabrielJesus, WSaliba,
     WilliamSaliba, ViktorGyokeresAccented,
     ViktorGyokeres, BukayoSaka,
     <<>>,
     <<"J", "e", "s", "u", "s">>,
     <<"S", "a", "l", "i", "b", "a">>,
     <<"-", " ", "S", "a", "l", "i", "b", "a">>,
     <<" ", " ", "b", "u", "k", "a", "y", "o", "\t", "S", "A", "K", "A", " ">>,
     <<"B", ".", " ", "S", "a", "k", "a">>,
     <<"S", "a", "k", "a">>,
     <<"S", "a", "k", "a", " ", "B">>,
     <<"B", "u", "k", "a", "y", "o", " ", "S", "a", "k", "o">>,
     <<"H", ".", " ", "S", "o", "n">>,
     <<"H", "e", "u", "n", "g", " ", "S", "o", "n">>,
     <<".">>,
     <<"J", ".", " ", "R", "o", "s", "a">>,
     <<"R", "o", "s", "a">>,
     <<"M", "a", "r", "k">>,
     <<"M", "a", "r", "k", "o">>,
     <<"M", "a", "r", "k", "s">>}

\* the names is_match is called with: the known ones and every name of at
\* most MaxShortName characters over a letter, the blank and the dot
Names == KnownNames \cup SeqsUpTo({"a", " ", "."}, MaxShortName)

\* longest candidate list find_best_match is given
MaxCandidates == 2

CandidateLists ==
    SeqsUpTo({<<>>, Gabriel, GabrielMagalhaes, GabrielJesus,
              <<"B", "u", "k", "a", "y", "o", " ", "S", "a", "k", "o">>,
              <<"S", "a", "l", "i", "b", "a">>},
             MaxCandidates)

\* the calls of the matcher
IsMatchCall(name1, name2) ==
    [op |-> "is_match", name1 |-> name1, name2 |-> name2]

FindBestMatchCall(target_name, candidates) ==
    [op |-> "find_best_match", target_name |-> target_name,
     candidates |-> candidates]

\* PlayerMatcher.is_match is called and returns
IsMatchReturns ==
    /\ UNCHANGED <<session_vars, pipeline_vars, enrich_vars, process_vars>>
    /\ m_pc = "call"
    /\ m_call.op = "is_match"
    /\ m_result' = [op |-> "is_match",
                    value |-> is_match(m_call.name1, m_call.name2)]
    /\ m_pc' = "returned"
    /\ UNCHANGED m_call

\* PlayerMatcher.find_best_match is called and returns
FindBestMatchReturns ==
    /\ UNCHANGED <<session_vars, pipeline_vars, enrich_vars, process_vars>>
    /\ m_pc = "call"
    /\ m_call.op = "find_best_match"
    /\ m_result' = [op |-> "find_best_match",
                    value |-> find_best_match(m_call.target_name,
                                              m_call.candidates)]
    /\ m_pc' = "returned"
    /\ UNCHANGED m_call

InitMatch ==
    /\ ProcessIdle
    /\ SessionIdle
    /\ PipelineIdle
    /\ EnrichIdle
    /\ m_pc = "call"
    /\ m_call \in {IsMatchCall(a, b) : a \in Names, b \in Names}
                  \cup {FindBestMatchCall(t, cs) : t \in Names, cs \in CandidateLists}
    /\ m_result = [op |-> "none"]

NextMatch ==
    \/ IsMatchReturns
    \/ FindBestMatchReturns

SpecMatch == InitMatch /\ [][NextMatch]_vars

(***************************************************************************)
(* Claims about the matcher.                                               *)
(***************************************************************************)
\* C18: is_match is symmetric: the value a call is_match(a, b) returned is
\* the value of is_match(b, a), for every pair of names (empty, one word,
\* accented, punctuated).
C18_IsMatchSymmetric ==
    m_pc = "returned" /\ m_call.op = "is_match" =>
        m_result.value = is_match(m_call.name2, m_call.name1)

\* an accented full name was matched against a one-word name
C18_Witness ==
    /\ m_pc = "returned"
    /\ m_call = IsMatchCall(Gabriel, GabrielMagalhaesAccented)
    /\ m_result.value = TRUE

\* the last whitespace-separated word of a normalized name, "" when none
last_word(n) ==
    IF \A i \in 1..Len(n) : n[i] \in Whitespace THEN <<>>
    ELSE LET e == CHOOSE k \in 1..Len(n) :
                    /\ n[k] \notin Whitespace
                    /\ \A l \in (k + 1)..Len(n) : n[l] \in Whitespace
             b == CHOOSE k \in 1..e :
                    /\ \A l \in k..e : n[l] \notin Whitespace
                    /\ k = 1 \/ n[k - 1] \in Whitespace
         IN SubSeq(n, b, e)

\* the first character that is not whitespace
first_letter(n) ==
    n[CHOOSE k \in 1..Len(n) :
        /\ n[k] \notin Whitespace
        /\ \A l \in 1..(k - 1) : n[l] \in Whitespace]

\* a normalized name of one word
single_word(n) == str_strip(n) = last_word(n)

contains(long, short) ==
    \E before, after \in 0..Len(long) :
       /\ before + Len(short) + after = Len(long)
       /\ \A i \in 1..Len(short) : long[before + i] = short[i]

\* the four rules of the claim on normalized names n1, n2
MatchRules(n1, n2) ==
    \/ n1 = n2
    \/ /\ contains(n1, n2) \/ contains(n2, n1)
       /\ \A n \in {n1, n2} : Len(n) >= 5
    \/ /\ last_word(n1) = last_word(n2)
       /\ Len(last_word(n1)) >= 4
       /\ \/ single_word(n1)
          \/ single_word(n2)
          \/ first_letter(n1) = first_letter(n2)
    \/ /\ n1 # <<>> \/ n2 # <<>>
       /\ LET longest == Max2(Len(n1), Len(n2))
          IN 100 * (longest - levenshtein_distance(n1, n2)) >= 80 * longest

\* C19: is_match(a, b) is true exactly when one of the four rules holds of
\* the normalized names; "Gabriel" matches "Gabriel Magalhaes", "W. Saliba"
\* matches "William Saliba", "A" does not match "Aaron Ramsdale".
C19_IsMatchRules ==
    m_pc = "returned" /\ m_call.op = "is_match" =>
        /\ m_result.value
             <=> MatchRules(normalize(m_call.name1), normalize(m_call.name2))
        /\ m_call = IsMatchCall(Gabriel, GabrielMagalhaes) => m_result.value
        /\ m_call = IsMatchCall(WSaliba, WilliamSaliba) => m_result.value
        /\ m_call = IsMatchCall(LetterA, AaronRamsdale) => ~m_result.value

\* the abbreviated first name was matched through the surname rule
C19_Witness ==
    /\ m_pc = "returned"
    /\ m_call = IsMatchCall(WSaliba, WilliamSaliba)
    /\ m_result.value = TRUE

\* C20: find_best_match returns none only when no candidate satisfies
\* is_match; otherwise it returns a candidate that satisfies is_match and
\* whose similarity_score no other matching candidate exceeds.
C20_BestAmongMatches ==
    m_pc = "returned" /\ m_call.op = "find_best_match" =>
        LET target == m_call.target_name
            cands == m_call.candidates
            matching == {i \in 1..Len(cands) : is_match(target, cands[i])}
        IN IF matching = {} THEN ~m_result.value.found
           ELSE /\ m_result.value.found
                /\ \E i \in matching :
                     /\ m_result.value.name = cands[i]
                     /\ \A j \in matching :
                          ~score_gt(similarity_score(target, cands[j]),
                                    similarity_score(target, cands[i]))

(***************************************************************************)
(* ProjectionsService.enrich_with_alerts                                   *)
(***************************************************************************)
\* longest projections frame and longest alert list of the model
MaxRows == 2

MaxAlerts == 2

\* fixture strings as the projections table and the alerts spell them
FixtureArsBre == <<"A", "R", "S", " ", "v", "s", " ", "B", "R", "E">>

FixtureArsBreUntidy == <<"a", "r", "s", " ", "v", "s", " ", "b", "r", "e", " ">>

FixtureLivBha == <<"L", "I", "V", " ", "v", "s", " ", "B", "H", "A">>

\* a row of the projections DataFrame (its other columns play no part)
ProjectionRow(player_name, fixture) ==
    [player_name |-> player_name, fixture |-> fixture]

\* an alert object: PlayerAlert or the database Alert
AlertObject(player_name, fixture, alert_level, description) ==
    [player_name |-> player_name, fixture |-> fixture,
     alert_level |-> alert_level, description |-> description]

Projections ==
    SeqsUpTo({ProjectionRow(ViktorGyokeres, FixtureArsBre),
              ProjectionRow(BukayoSaka, FixtureArsBre),
              ProjectionRow(GabrielMagalhaes, FixtureArsBre),
              ProjectionRow(GabrielJesus, FixtureArsBre),
              ProjectionRow(GabrielJesus, FixtureLivBha)},
             MaxRows)

AlertListsToMatch ==
    SeqsUpTo({AlertObject(ViktorGyokeresAccented, FixtureArsBreUntidy, "high", "knee"),
              AlertObject(Gabriel, FixtureArsBre, "low", "rotation"),
              AlertObject(Gabriel, FixtureArsBre, "high", "suspended"),
              AlertObject(GabrielJesus, FixtureLivBha, "medium", "minutes")},
             MaxAlerts)

\* lines 241/250 without the normalisation of the fixture string (a mutant)
fixture_key_raw(fixture) == <<>>

\* alert.fixture.lower().strip() / row[fixture_column].lower().strip()
fixture_key(fixture) == str_strip(str_lower(fixture))

\* lines 239-244: alerts_by_fixture, a dict of fresh lists; every entry
\* keeps the position the alert has in the caller's list
build_alerts_by_fixture(alerts) ==
    LET entries == [i \in 1..Len(alerts) |-> [id |-> i, alert |-> alerts[i]]]
        keys == {fixture_key(alerts[i].fixture) : i \in 1..Len(alerts)}
    IN [k \in keys |->
          SelectSeq(entries, LAMBDA e : fixture_key(e.alert.fixture) = k)]

\* lines 256-257, taking the last matching alert of the pool (a mutant)
last_match(projection_player, fixture_alerts) ==
    LET hits == {i \in 1..Len(fixture_alerts) :
                   is_match(projection_player, fixture_alerts[i].alert.player_name)}
    IN IF hits = {} THEN 0
       ELSE CHOOSE i \in hits : \A j \in hits : j <= i

\* lines 256-257: position in the pool of the first alert is_match accepts,
\* 0 when the loop ends without a match
RECURSIVE first_match_from(_, _, _)
first_match_from(projection_player, fixture_alerts, i) ==
    IF i > Len(fixture_alerts) THEN 0
    ELSE IF is_match(projection_player, fixture_alerts[i].alert.player_name)
    THEN i
    ELSE first_match_from(projection_player, fixture_alerts, i + 1)

first_match(projection_player, fixture_alerts) ==
    first_match_from(projection_player, fixture_alerts, 1)

\* line 262 left out: the pool keeps the consumed alert (a mutant)
list_remove_nothing(fixture_alerts, alert) == fixture_alerts

\* list.remove(alert), deleting every element equal to alert (a mutant)
list_remove_all(fixture_alerts, alert) ==
    SelectSeq(fixture_alerts, LAMBDA e : e.alert # alert)

\* list.remove(alert): deletes the first element equal to alert
list_remove(fixture_alerts, alert) ==
    IF \E i \in 1..Len(fixture_alerts) : fixture_alerts[i].alert = alert
    THEN LET k == CHOOSE i \in 1..Len(fixture_alerts) :
                    /\ fixture_alerts[i].alert = alert
                    /\ \A j \in 1..(i - 1) : fixture_alerts[j].alert # alert
         IN SubSeq(fixture_alerts, 1, k - 1)
              \o SubSeq(fixture_alerts, k + 1, Len(fixture_alerts))
    ELSE fixture_alerts

\* the value None of the alert columns
NoAlert == "None"

\* a row of the enriched frame; attached is the position, in the caller's
\* alert list, of the alert written into the row (0 when none)
EnrichedRow(row, alert_level, alert_description, alert_matched, attached) ==
    [player_name |-> row.player_name, fixture |-> row.fixture,
     alert_level |-> alert_level, alert_description |-> alert_description,
     alert_matched |-> alert_matched, attached |-> attached]

\* lines 246-264: the loop over the rows, in index order.  st holds the
\* rows written so far, matched_count, and the pools as they stood before
\* the loop and after each iteration
RECURSIVE match_rows(_, _, _, _)
match_rows(projections, idx_row, alerts_by_fixture, st) ==
    IF idx_row > Len(projections) THEN st
    ELSE LET row == projections[idx_row]
             projection_fixture == fixture_key(row.fixture)
             fixture_alerts == IF projection_fixture \in DOMAIN alerts_by_fixture
                               THEN alerts_by_fixture[projection_fixture]
                               ELSE <<>>
             \* the iteration's outcome for the position hit of the first
             \* matching alert: the pools it leaves and the next st
             after(hit) ==
                 IF hit = 0
                 THEN [pools |-> alerts_by_fixture,
                       st |-> [st EXCEPT
                                 !.rows = Append(@, EnrichedRow(row, NoAlert, NoAlert,
                                                                FALSE, 0)),
                                 !.pools = Append(@, alerts_by_fixture)]]
                 ELSE LET alert == fixture_alerts[hit].alert
                          remaining == {[alerts_by_fixture EXCEPT
                                           ![projection_fixture] =
                                               list_remove(fixture_alerts, alert)]}
                      IN CHOOSE a \in
                           {[pools |-> r,
                             st |-> [st EXCEPT
                                       !.rows = Append(@, EnrichedRow(row, alert.alert_level,
                                                           alert.description, TRUE,
                                                           fixture_alerts[hit].id)),
                                       !.matched_count = @ + 1,
                                       !.pools = Append(@, r)]] : r \in remaining} : TRUE
         IN CHOOSE result \in
              {match_rows(projections, idx_row + 1, a.pools, a.st) :
                 a \in {after(hit) :
                          hit \in {first_match(row.player_name, fixture_alerts)}}} : TRUE

\* the frame enrich_with_alerts returns: its rows and the columns it added,
\* with what the call logged at lines 265-267: matched_count,
\* unmatched_count and the pools (here: the pools after every iteration).
\* Lines 217-219: an empty frame is returned as it is; lines 221-226:
\* without alerts only the two null columns are added; neither path logs
enrich_with_alerts(projections, alerts) ==
    IF projections = <<>>
    THEN [columns |-> {}, rows |-> <<>>, matched_count |-> None,
          unmatched_count |-> None, pools |-> <<>>]
    ELSE IF alerts = <<>>
    THEN [columns |-> {"alert_level", "alert_description"},
          rows |-> [i \in 1..Len(projections) |->
                      EnrichedRow(projections[i], NoAlert, NoAlert, FALSE, 0)],
          matched_count |-> None, unmatched_count |-> None, pools |-> <<>>]
    ELSE CHOOSE enriched \in
           {[columns |-> {"alert_level", "alert_description", "alert_matched"},
             rows |-> st.rows,
             matched_count |-> st.matched_count,
             unmatched_count |-> Len(alerts) - st.matched_count,
             pools |-> st.pools] :
              st \in {match_rows(projections, 1, alerts_by_fixture,
                                 [rows |-> <<>>, matched_count |-> 0,
                                  pools |-> <<alerts_by_fixture>>]) :
                        alerts_by_fixture \in {build_alerts_by_fixture(alerts)}}} : TRUE

\* the caller's alert list after the call, had the code consumed alerts
\* from it (a mutant)
alerts_consumed(alerts, result) ==
    SelectSeq(alerts,
              LAMBDA a : \A i \in 1..Len(result.rows) :
                            result.rows[i].alert_description # a.description)

\* the caller's alert list after the call: the pools are fresh lists, the
\* list itself is only read
alerts_after_call(alerts, result) == alerts

\* the caller's DataFrame after the call: line 231 works on a copy
projections_after_call(projections, result) == projections

\* one call enrich_with_alerts(projections, alerts) by the caller
EnrichReturns ==
    /\ UNCHANGED <<session_vars, pipeline_vars, match_vars, process_vars>>
    /\ e_pc = "ready"
    /\ Len(e_runs) < 2
    /\ \E result \in {enrich_with_alerts(e_projections, e_alerts)} :
          /\ e_runs' = Append(e_runs,
                              [projections |-> e_projections,
                               alerts |-> e_alerts,
                               enriched |-> result])
          /\ e_alerts' = alerts_after_call(e_alerts, result)
          /\ e_projections' = projections_after_call(e_projections, result)
    /\ UNCHANGED e_pc

InitEnrich ==
    /\ ProcessIdle
    /\ SessionIdle
    /\ PipelineIdle
    /\ MatchIdle
    /\ e_pc = "ready"
    /\ e_projections \in Projections
    /\ e_alerts \in AlertListsToMatch
    /\ e_runs = <<>>

NextEnrich ==
    EnrichReturns

SpecEnrich == InitEnrich /\ [][NextEnrich]_vars

(***************************************************************************)
(* Claims about the enrichment.                                            *)
(***************************************************************************)
\* C15: within one call of enrich_with_alerts an alert is written into at
\* most one row: no two distinct rows carry the same alert of the caller's
\* list, also when both rows' names match it.
C15_AlertAttachedOnce ==
    \A k \in 1..Len(e_runs) :
      LET rows == e_runs[k].enriched.rows
      IN \A r, q \in 1..Len(rows) :
           r # q /\ rows[r].attached # 0 => rows[r].attached # rows[q].attached

\* two rows of one fixture both match the only alert; the first took it and
\* the second was left without
C15_Witness ==
    /\ Len(e_runs) >= 1
    /\ e_runs[1].projections = <<ProjectionRow(GabrielMagalhaes, FixtureArsBre),
                                 ProjectionRow(GabrielJesus, FixtureArsBre)>>
    /\ e_runs[1].alerts = <<AlertObject(Gabriel, FixtureArsBre, "low", "rotation")>>
    /\ is_match(GabrielJesus, Gabriel)
    /\ e_runs[1].enriched.rows[1].attached = 1
    /\ e_runs[1].enriched.rows[2].attached = 0

open_matches(run, r) ==
    LET rows == run.enriched.rows
    IN {i \in 1..Len(run.alerts) :
          /\ fixture_key(run.alerts[i].fixture) = fixture_key(rows[r].fixture)
          /\ is_match(rows[r].player_name, run.alerts[i].player_name)
          /\ \A q \in 1..(r - 1) : rows[q].attached # i}

\* C17: every row carries the first alert, in list order, of its own fixture
\* that is still in the pool and matches the row's player, with that alert's
\* level and description; a row without such an alert keeps the null level.
\* Alert "Viktor Gyökeres"/high goes to row "Viktor Gyokeres" while the row
\* "Bukayo Saka" of the same fixture stays without alert.  Stated of the
\* call that returned last; e_runs only grows, so every call is covered.
C17_FirstMatchingAlert ==
    e_runs # <<>> =>
      LET run == e_runs[Len(e_runs)]
          rows == run.enriched.rows
      IN /\ Len(rows) = Len(run.projections)
         /\ \A r \in 1..Len(rows) :
              /\ rows[r].player_name = run.projections[r].player_name
              /\ rows[r].fixture = run.projections[r].fixture
              /\ LET open == open_matches(run, r)
                 IN IF open = {}
                    THEN /\ rows[r].attached = 0
                         /\ rows[r].alert_level = NoAlert
                         /\ rows[r].alert_description = NoAlert
                    ELSE LET first == CHOOSE i \in open : \A j \in open : i <= j
                         IN /\ rows[r].attached = first
                            /\ rows[r].alert_level = run.alerts[first].alert_level
                            /\ rows[r].alert_description = run.alerts[first].description
         /\ /\ run.projections = <<ProjectionRow(ViktorGyokeres, FixtureArsBre),
                                   ProjectionRow(BukayoSaka, FixtureArsBre)>>
            /\ run.alerts = <<AlertObject(ViktorGyokeresAccented,
                                          FixtureArsBreUntidy, "high", "knee")>>
            => /\ rows[1].alert_level = "high"
               /\ rows[2].alert_level = NoAlert

\* the accented alert reached the unaccented row and its sibling got none
C17_Witness ==
    /\ Len(e_runs) >= 1
    /\ e_runs[1].projections = <<ProjectionRow(ViktorGyokeres, FixtureArsBre),
                                 ProjectionRow(BukayoSaka, FixtureArsBre)>>
    /\ e_runs[1].alerts = <<AlertObject(ViktorGyokeresAccented,
                                        FixtureArsBreUntidy, "high", "knee")>>
    /\ e_runs[1].enriched.rows[1].alert_level = "high"
    /\ e_runs[1].enriched.rows[2].alert_level = NoAlert

(***************************************************************************)
(* Claims about the research agent's answer and the shark agent's retry.   *)
(***************************************************************************)
\* C23: when a research session ends with a final text that is not JSON,
\* research_team returns instead of raising: the attempt is logged as an
\* invalid result (the validator rejected the findings, which have no
\* description), never as an exception, and the research agent is called
\* again unless that was the last attempt, in which case the retry loop ends
\* exhausted.
C23_BadJsonIsInvalidAttempt ==
    [][research_content' = "not json" =>
         /\ attempt_log' = Append(attempt_log, "invalid")
         /\ findings_get_description(research_json_loads(research_content')) = None
         /\ IF attempt < max_retries_default
            THEN /\ attempt' = attempt + 1
                 /\ stage' = "research"
                 /\ p_pc' = "agent"
                 /\ exc' = NoExc
            ELSE /\ retry_end'.outcome = "exhausted"
                 /\ retry_end'.log = attempt_log'
                 /\ exc'.type = "AgentResponseError"]_vars

\* the first research attempt answered with text that is not JSON and the
\* second attempt is under way
C23_Witness ==
    /\ research_content = "not json"
    /\ attempt_log = <<"invalid">>
    /\ attempt = 2
    /\ stage = "research"
    /\ p_pc = "agent"

\* C25: the shark agent's call is retried like the other agents' calls: an
\* Exception of the host exchange that leaves the shark agent ends the run
\* only as an AgentResponseError that names the shark agent, raised by a
\* retry loop that made max_retries calls.
C25_SharkCallRetried ==
    /\ p_pc = "aborted"
    /\ stage = "shark"
    /\ exc.type \in {"TransportError", "AgentResponseError"}
    => /\ exc.type = "AgentResponseError"
       /\ exc.agent_name.agent = "shark"
       /\ retry_end.outcome = "exhausted"
       /\ retry_end.calls = max_retries_default

(***************************************************************************)
(* Claim about the order of a session's conversation.                      *)
(***************************************************************************)
\* the tool-result messages a turn's response calls for: one per bound local
\* request, in request order, holding what the executor returned
turn_results(resp) ==
    LET bound == SelectSeq(resp, IsBoundCall)
    IN [i \in 1..Len(bound) |->
          tool_result(registry_execute(tool_registry, bound[i].name,
                                       json_loads(bound[i].arguments)))]

\* the conversation in which every turn's response is followed by its
\* tool-result messages before the next turn's response
RECURSIVE turns_in_order(_)
turns_in_order(R) ==
    IF R = <<>> THEN InitialChat
    ELSE LET k == Len(R)
         IN turns_in_order(SubSeq(R, 1, k - 1))
              \o <<[role |-> "assistant", tool_calls |-> R[k]]>>
              \o turn_results(R[k])

\* C24: the turns of a session follow one another, and for every bound local
\* request of a turn the executor's result stands in the conversation as a
\* tool-result message, in request order, after that turn's response and
\* before the next turn's response.
C24_ResultsBeforeNextTurn ==
    s_pc \in {"loop", "returned"} =>
        /\ chat = turns_in_order(turn_responses)
        /\ research_turns = Len(turn_responses)

\* turn 1 asked for the roster of both teams, both results were appended in
\* that order, and turn 2 has been submitted
C24_Witness ==
    /\ s_pc = "returned"
    /\ Len(turn_responses) = 2
    /\ Len(chat) = Len(InitialChat) + 4
    /\ chat[Len(InitialChat) + 2] =
          tool_result([roster_of |-> "Arsenal", tool |-> RosterTool])
    /\ chat[Len(InitialChat) + 3] =
          tool_result([roster_of |-> "Brentford", tool |-> RosterTool])
    /\ chat[Len(InitialChat) + 4].role = "assistant"

(***************************************************************************)
(* Further claims about the enrichment.                                    *)
(***************************************************************************)
\* C26: a row only ever carries an alert of its own fixture, the two fixture
\* strings being equal once lower-cased and trimmed: an alert of another
\* fixture is not written into the row, also when the player names match.
C26_SameFixtureOnly ==
    e_runs # <<>> =>
      LET run == e_runs[Len(e_runs)]
          rows == run.enriched.rows
      IN \A r \in 1..Len(rows) :
           rows[r].attached # 0 =>
             str_strip(str_lower(run.alerts[rows[r].attached].fixture))
               = str_strip(str_lower(rows[r].fixture))

\* the only alert names the row's player but belongs to another fixture:
\* the row stayed without alert
C26_Witness ==
    /\ Len(e_runs) >= 1
    /\ e_runs[1].projections = <<ProjectionRow(GabrielJesus, FixtureArsBre)>>
    /\ e_runs[1].alerts =
          <<AlertObject(GabrielJesus, FixtureLivBha, "medium", "minutes")>>
    /\ is_match(GabrielJesus, GabrielJesus)
    /\ e_runs[1].enriched.rows[1].attached = 0
    /\ e_runs[1].enriched.rows[1].alert_level = NoAlert

\* the number of alerts in the pools
pool_size(alerts_by_fixture) ==
    LET keys == DOMAIN alerts_by_fixture
        RECURSIVE total(_)
        total(K) == IF K = {} THEN 0
                    ELSE LET k == CHOOSE x \in K : TRUE
                         IN Len(alerts_by_fixture[k]) + total(K \ {k})
    IN total(keys)

\* the number of rows among the first k that are marked matched
matched_upto(rows, k) == Cardinality({r \in 1..k : rows[r].alert_matched})

\* C30: before the row loop and after each of its iterations, the rows marked
\* matched so far and the alerts still in the pools add up to the input
\* alerts; the matched rows never outnumber the input alerts, and the
\* unmatched count the call reports is the number of alerts left in the pools.
C30_MatchedPlusPooled ==
    e_runs # <<>> =>
      LET run == e_runs[Len(e_runs)]
          out == run.enriched
      IN run.projections # <<>> /\ run.alerts # <<>> =>
           /\ Len(out.pools) = Len(out.rows) + 1
           /\ \A k \in 0..Len(out.rows) :
                matched_upto(out.rows, k) + pool_size(out.pools[k + 1])
                  = Len(run.alerts)
           /\ out.matched_count = matched_upto(out.rows, Len(out.rows))
           /\ out.matched_count <= Len(run.alerts)
           /\ out.unmatched_count = pool_size(out.pools[Len(out.pools)])

\* two equal alerts were given and one row took one of them: one is left
C30_Witness ==
    /\ Len(e_runs) >= 1
    /\ e_runs[1].projections = <<ProjectionRow(GabrielMagalhaes, FixtureArsBre)>>
    /\ e_runs[1].alerts = <<AlertObject(Gabriel, FixtureArsBre, "low", "rotation"),
                            AlertObject(Gabriel, FixtureArsBre, "low", "rotation")>>
    /\ e_runs[1].enriched.matched_count = 1
    /\ e_runs[1].enriched.unmatched_count = 1

(***************************************************************************)
(* Claim about the normal form of a name.                                  *)
(***************************************************************************)
\* s has no leading, trailing or consecutive blanks
collapsed(s) ==
    /\ s # <<>> => s[1] \notin Whitespace /\ s[Len(s)] \notin Whitespace
    /\ \A i \in 1..(Len(s) - 1) :
         ~(s[i] \in Whitespace /\ s[i + 1] \in Whitespace)

\* C27: for every name the matcher is called with, normalize returns a
\* lower-case, accent-free string without ' - . whose whitespace is
\* collapsed, and normalizing that string again changes nothing.
C27_NormalizeIdempotent ==
    m_pc = "returned" /\ m_call.op = "is_match" =>
      \A name \in {m_call.name1, m_call.name2} :
        LET n == normalize(name)
        IN /\ \A i \in 1..Len(n) :
                n[i] \notin Range(UpperCase) \cup Punctuation
                         \cup {"o:", "a~", CombiningMark}
           /\ collapsed(n)
           /\ normalize(n) = n

\* ------------------------------------------------------------------
\* Process-wide state: the run identifier, the request rate limiter and
\* the alert store, each operation run to completion before the next
\* (none of them awaits or starts a thread).
\* ------------------------------------------------------------------

\* the clock stops here
MaxClock == 3

\* get_run_id is called at most this often
MaxRunIdCalls == 2

\* time passes between two operations
ClockTicks ==
    /\ now < MaxClock
    /\ now' = now + 1
    /\ UNCHANGED <<module_run_id, run_id_calls, request_timestamps, recorded,
                   last_check, sv_pc, sv_alerts, sv_pending, sv_result,
                   alert_table, shared_registry, callers>>
    /\ UNCHANGED <<session_vars, pipeline_vars, match_vars, enrich_vars>>

\* ---- AlertService.save_alerts ----

\* a rollback that leaves the rows added so far in the table
session_rollback_keeps(table, pending) == table \o pending

\* session.rollback(): the rows added since the session opened are discarded
session_rollback(table, pending) == table

\* save_alerts up to `with session_scope() as session`
SaveAlertsCall ==
    /\ sv_pc = "call"
    /\ IF sv_alerts = <<>>
       THEN /\ sv_pc' = "returned"
            /\ sv_result' = [kind |-> "count", count |-> 0]
       ELSE /\ sv_pc' = "adding"
            /\ UNCHANGED sv_result
    /\ UNCHANGED <<now, module_run_id, run_id_calls, request_timestamps, recorded,
                   last_check, sv_alerts, sv_pending, alert_table,
                   shared_registry, callers>>
    /\ UNCHANGED <<session_vars, pipeline_vars, match_vars, enrich_vars>>

\* one iteration of the loop: Alert(...) and session.add, which either
\* succeed or raise into session_scope's except branch
SaveAlertsAdd ==
    /\ sv_pc = "adding"
    /\ Len(sv_pending) < Len(sv_alerts)
    /\ \/ /\ sv_pending' = Append(sv_pending,
                                  [player_name |-> sv_alerts[Len(sv_pending) + 1],
                                   run_id |-> run_id])
          /\ UNCHANGED <<sv_pc, sv_result, alert_table>>
       \/ /\ alert_table' = session_rollback(alert_table, sv_pending)
          /\ sv_pending' = <<>>
          /\ sv_pc' = "raised"
          /\ sv_result' = [kind |-> "exception", at |-> "add",
                            saved_count |-> Len(sv_pending)]
    /\ UNCHANGED <<now, module_run_id, run_id_calls, request_timestamps, recorded,
                   last_check, sv_alerts, shared_registry, callers>>
    /\ UNCHANGED <<session_vars, pipeline_vars, match_vars, enrich_vars>>

\* the loop is over: session.commit() stores every pending row or fails,
\* and a failure is rolled back and raised again
SaveAlertsCommit ==
    /\ sv_pc = "adding"
    /\ Len(sv_pending) = Len(sv_alerts)
    /\ \/ /\ alert_table' = alert_table \o sv_pending
          /\ sv_pc' = "returned"
          /\ sv_result' = [kind |-> "count", count |-> Len(sv_pending)]
       \/ /\ alert_table' = session_rollback(alert_table, sv_pending)
          /\ sv_pc' = "raised"
          /\ sv_result' = [kind |-> "exception", at |-> "commit",
                            saved_count |-> Len(sv_pending)]
    /\ sv_pending' = <<>>
    /\ UNCHANGED <<now, module_run_id, run_id_calls, request_timestamps, recorded,
                   last_check, sv_alerts, shared_registry, callers>>
    /\ UNCHANGED <<session_vars, pipeline_vars, match_vars, enrich_vars>>

\* ---- get_run_id ----

\* a run identifier made anew by every call
get_run_id_fresh(rid, t) == <<t>>

\* get_run_id(): the stamp of the clock when _run_id is None, else _run_id;
\* the value is both stored in _run_id and returned
get_run_id(rid, t) == IF rid = <<>> THEN <<t>> ELSE rid

\* one call of get_run_id, by the pipeline's constructor, the logger's or
\* any later caller
GetRunId ==
    /\ Len(run_id_calls) < MaxRunIdCalls
    /\ module_run_id' = get_run_id(module_run_id, now)
    /\ run_id_calls' = Append(run_id_calls, [at |-> now, value |-> module_run_id'])
    /\ UNCHANGED <<now, request_timestamps, recorded, last_check, sv_pc,
                   sv_alerts, sv_pending, sv_result, alert_table,
                   shared_registry, callers>>
    /\ UNCHANGED <<session_vars, pipeline_vars, match_vars, enrich_vars>>

\* ---- GrokClient._check_rate_limit and get_rate_limit_status ----

\* GrokClient.MAX_REQUESTS_PER_HOUR, scaled down from 100
MAX_REQUESTS_PER_HOUR == 2

\* GrokClient.REQUEST_WINDOW_SECONDS, scaled down from 3600
REQUEST_WINDOW_SECONDS == 2

\* a list of timestamps that is never cleaned
in_window_all(timestamps, t) == timestamps

\* [ts for ts in self._request_timestamps if ts > cutoff]
in_window(timestamps, t) ==
    SelectSeq(timestamps, LAMBDA ts : ts > t - REQUEST_WINDOW_SECONDS)

\* _check_rate_limit(), the first statement of chat_with_streaming: the
\* request goes on to the host only when this returns
CheckRateLimit ==
    /\ LET kept == in_window(request_timestamps, now)
       IN IF Len(kept) >= MAX_REQUESTS_PER_HOUR
          THEN /\ request_timestamps' = kept
               /\ last_check' = [outcome |-> "RateLimitExceeded", at |-> now,
                                 counted |-> Len(kept)]
               /\ UNCHANGED recorded
          ELSE /\ request_timestamps' = Append(kept, now)
               /\ recorded' = Append(recorded, now)
               /\ last_check' = [outcome |-> "recorded", at |-> now,
                                 counted |-> Len(kept)]
    /\ UNCHANGED <<now, module_run_id, run_id_calls, sv_pc, sv_alerts,
                   sv_pending, sv_result, alert_table, shared_registry, callers>>
    /\ UNCHANGED <<session_vars, pipeline_vars, match_vars, enrich_vars>>

\* get_rate_limit_status(): cleans the list and reports on it
GetRateLimitStatus ==
    /\ LET kept == in_window(request_timestamps, now)
       IN /\ request_timestamps' = kept
          /\ last_check' = [outcome |-> "status", at |-> now,
                            requests_made |-> Len(kept),
                            requests_remaining |-> MAX_REQUESTS_PER_HOUR - Len(kept)]
    /\ UNCHANGED <<now, module_run_id, run_id_calls, recorded, sv_pc, sv_alerts,
                   sv_pending, sv_result, alert_table, shared_registry, callers>>
    /\ UNCHANGED <<session_vars, pipeline_vars, match_vars, enrich_vars>>

InitProcess ==
    /\ SessionIdle
    /\ PipelineIdle
    /\ MatchIdle
    /\ EnrichIdle
    /\ now = 0
    /\ module_run_id = <<>>
    /\ run_id_calls = <<>>
    /\ request_timestamps = <<>>
    /\ recorded = <<>>
    /\ last_check = [outcome |-> "none"]
    /\ sv_pc = "call"
    /\ sv_alerts \in AlertLists
    /\ sv_pending = <<>>
    /\ sv_result = [kind |-> "none"]
    /\ alert_table \in {<<>>, <<[player_name |-> "Saka", run_id |-> "2025_12_31_090000"]>>}
    /\ shared_registry = [none |-> FALSE, tools |-> <<>>]
    /\ callers = <<>>

NextProcess ==
    \/ ClockTicks
    \/ GetRunId
    \/ CheckRateLimit
    \/ GetRateLimitStatus
    \/ SaveAlertsCall
    \/ SaveAlertsAdd
    \/ SaveAlertsCommit

SpecProcess == InitProcess /\ [][NextProcess]_vars

\* the rows of the table stored under the service's run identifier
rows_of_run(table) == SelectSeq(table, LAMBDA row : row.run_id = run_id)

\* C21: save_alerts stores a batch all-or-nothing. While the batch is being
\* added and after a failed add or commit, no row of the batch is in the
\* table and the failure reaches the caller as an exception; after a return
\* every alert of the batch is stored, in order, under the service's run
\* identifier and the returned count is the size of the batch.
C21_SaveAllOrNothing ==
    /\ sv_pc \in {"call", "adding"} => rows_of_run(alert_table) = <<>>
    /\ sv_pc = "raised" =>
         /\ rows_of_run(alert_table) = <<>>
         /\ sv_result.kind = "exception"
    /\ sv_pc = "returned" =>
         /\ rows_of_run(alert_table) =
              [i \in 1..Len(sv_alerts) |->
                 [player_name |-> sv_alerts[i], run_id |-> run_id]]
         /\ sv_result = [kind |-> "count", count |-> Len(sv_alerts)]
    /\ \A i \in 1..Len(alert_table) :
         alert_table[i].run_id # run_id =>
             i = 1 /\ alert_table[i] = [player_name |-> "Saka", run_id |-> "2025_12_31_090000"]

\* a batch of two failed after its first alert had been added, with the
\* rows of an earlier run still in the table
C21_Witness ==
    /\ sv_pc = "raised"
    /\ Len(sv_alerts) = 2
    /\ sv_result.saved_count = 1
    /\ alert_table # <<>>

\* C28: the run identifier is fixed by the first call of get_run_id: every
\* call returns what the first call returned, whatever the clock shows by
\* then, and the module keeps that value.
C28_RunIdWriteOnce ==
    /\ run_id_calls # <<>> =>
         /\ run_id_calls[1].value = <<run_id_calls[1].at>>
         /\ module_run_id = run_id_calls[1].value
    /\ \A i \in 1..Len(run_id_calls) : run_id_calls[i].value = run_id_calls[1].value

\* a later call made after the clock moved on
C28_Witness ==
    /\ Len(run_id_calls) >= 2
    /\ run_id_calls[Len(run_id_calls)].at > run_id_calls[1].at

\* C29: the requests recorded in any window of REQUEST_WINDOW_SECONDS that
\* ends at a recorded request, the request included and the window's start
\* excluded, number at most MAX_REQUESTS_PER_HOUR; a call that raises finds
\* the limit reached and records nothing: the list holds exactly the
\* recorded requests younger than the window, older ones having been
\* dropped before the count.
C29_RateLimitHolds ==
    /\ \A i \in 1..Len(recorded) :
         Cardinality({j \in 1..Len(recorded) :
                        /\ recorded[j] > recorded[i] - REQUEST_WINDOW_SECONDS
                        /\ recorded[j] <= recorded[i]}) <= MAX_REQUESTS_PER_HOUR
    /\ last_check.outcome # "none" =>
         request_timestamps =
           SelectSeq(recorded,
                     LAMBDA ts : ts > last_check.at - REQUEST_WINDOW_SECONDS)
    /\ last_check.outcome = "RateLimitExceeded" =>
         /\ last_check.counted = MAX_REQUESTS_PER_HOUR
         /\ Len(request_timestamps) = MAX_REQUESTS_PER_HOUR
         /\ recorded[Len(recorded)] <= last_check.at
    /\ last_check.outcome = "recorded" =>
         /\ last_check.counted < MAX_REQUESTS_PER_HOUR
         /\ recorded[Len(recorded)] = last_check.at

\* a request rejected after earlier requests had left the window and been
\* replaced by as many new ones
C29_Witness ==
    /\ last_check.outcome = "RateLimitExceeded"
    /\ Len(recorded) > MAX_REQUESTS_PER_HOUR
    /\ Len(request_timestamps) = MAX_REQUESTS_PER_HOUR

\* ------------------------------------------------------------------
\* ResearchAgent.research_team called by several callers at a time, each
\* on a thread of its own, all using the module global tool_registry.
\* A step is one statement of research_team or of chat_with_streaming
\* that reads or writes the registry.
\* ------------------------------------------------------------------

\* callers of research_team in flight together
MaxCallers == 2

\* turns with a local tool request the host asks of one session
MaxSharedTurns == 2

\* research_agent.py line 80: tool_registry.clear()
ResearchClears(t) ==
    /\ callers[t].pc = "call"
    /\ shared_registry' = [shared_registry EXCEPT !.tools = <<>>]
    /\ callers' = [callers EXCEPT ![t].pc = "cleared"]
    /\ UNCHANGED <<now, module_run_id, run_id_calls, request_timestamps, recorded,
                   last_check, sv_pc, sv_alerts, sv_pending, sv_result, alert_table>>
    /\ UNCHANGED <<session_vars, pipeline_vars, match_vars, enrich_vars>>

\* research_agent.py line 81: tool_registry.register(ActiveRosterTool()),
\* self._tools[tool.name] = tool
ResearchRegisters(t) ==
    /\ callers[t].pc = "cleared"
    /\ shared_registry' =
         [shared_registry EXCEPT !.tools =
            IF RosterTool \in Range(@) THEN @ ELSE Append(@, RosterTool)]
    /\ callers' = [callers EXCEPT ![t].pc = "registered"]
    /\ UNCHANGED <<now, module_run_id, run_id_calls, request_timestamps, recorded,
                   last_check, sv_pc, sv_alerts, sv_pending, sv_result, alert_table>>
    /\ UNCHANGED <<session_vars, pipeline_vars, match_vars, enrich_vars>>

\* chat_with_streaming(tool_registry=tool_registry) up to the loop:
\* `if tool_registry:` binds custom_tools_names from the registry as it is now
SessionBuildsTools(t) ==
    /\ callers[t].pc = "registered"
    /\ callers' = [callers EXCEPT
                     ![t].pc = "loop",
                     ![t].custom_tools_names = custom_tools_names_of(shared_registry)]
    /\ UNCHANGED <<now, module_run_id, run_id_calls, request_timestamps, recorded,
                   last_check, sv_pc, sv_alerts, sv_pending, sv_result, alert_table,
                   shared_registry>>
    /\ UNCHANGED <<session_vars, pipeline_vars, match_vars, enrich_vars>>

\* one iteration of the session's loop: the response asks for the roster
\* tool, which is looked up in custom_tools_names and run by the registry
\* as it is now, or asks for no local tool and the session returns
SharedSessionTurn(t) ==
    /\ callers[t].pc = "loop"
    /\ \/ /\ Len(callers[t].results) < MaxSharedTurns
          /\ IF ~callers[t].custom_tools_names.bound
             THEN callers' = [callers EXCEPT ![t].pc = "raised",
                                             ![t].raised = "UnboundLocalError"]
             ELSE IF RosterTool \in Range(callers[t].custom_tools_names.names)
             THEN callers' = [callers EXCEPT ![t].results =
                                Append(@, registry_execute(shared_registry, RosterTool,
                                                           [team |-> "Arsenal"]))]
             ELSE callers' = [callers EXCEPT ![t].results =
                                Append(@, [skipped |-> RosterTool])]
       \/ callers' = [callers EXCEPT ![t].pc = "returned"]
    /\ UNCHANGED <<now, module_run_id, run_id_calls, request_timestamps, recorded,
                   last_check, sv_pc, sv_alerts, sv_pending, sv_result, alert_table,
                   shared_registry>>
    /\ UNCHANGED <<session_vars, pipeline_vars, match_vars, enrich_vars>>

InitShared ==
    /\ SessionIdle
    /\ PipelineIdle
    /\ MatchIdle
    /\ EnrichIdle
    /\ now = 0
    /\ module_run_id = <<>>
    /\ run_id_calls = <<>>
    /\ request_timestamps = <<>>
    /\ recorded = <<>>
    /\ last_check = [outcome |-> "none"]
    /\ sv_pc = "idle"
    /\ sv_alerts = <<>>
    /\ sv_pending = <<>>
    /\ sv_result = [kind |-> "none"]
    /\ alert_table = <<>>
    /\ shared_registry = [none |-> FALSE, tools |-> <<>>]
    /\ callers = [t \in 1..MaxCallers |->
                    [pc |-> "call", custom_tools_names |-> NamesUnbound,
                     results |-> <<>>, raised |-> "none"]]

NextShared ==
    \E t \in 1..MaxCallers :
        \/ ResearchClears(t)
        \/ ResearchRegisters(t)
        \/ SessionBuildsTools(t)
        \/ SharedSessionTurn(t)

SpecShared == InitShared /\ [][NextShared]_vars

\* C22: a session that has done its own setup sees the roster tool bound
\* whatever the other callers of research_team do meanwhile: its
\* custom_tools_names holds the tool, no request for it raises and the
\* registry runs every such request.
C22_BindingsUndisturbed ==
    \A t \in 1..MaxCallers :
        callers[t].pc \in {"loop", "returned", "raised"} =>
            /\ callers[t].pc # "raised"
            /\ callers[t].custom_tools_names = [bound |-> TRUE, names |-> <<RosterTool>>]
            /\ \A i \in 1..Len(callers[t].results) :
                 callers[t].results[i] = [roster_of |-> "Arsenal", tool |-> RosterTool]

====
